---- MODULE Spec2Model ----
(***************************************************************************)
(* Remote-state resolution of cdflow-commands: S3BucketFactory and         *)
(* LockTableFactory of cdflow_commands/terragrunt.py, run by one or more   *)
(* processes against one AWS account; the migration of the state objects   *)
(* to the new key layout (migrate_state); and ECSEventIterator of          *)
(* cdflow_commands/ecs_monitor.py.  Every AWS API call of the factories    *)
(* and of the migration is one atomic step of the calling process; every   *)
(* next() of the iterator is one step.                                     *)
(***************************************************************************)
EXTENDS Integers, Sequences, FiniteSets, TLC

\* ------------------------------------------------------------------ bounds
\* processes that run concurrently
NProcs == 2
\* successive runs of one process (Spec)
MaxRuns == 2
\* runs of each concurrent process (RaceSpec)
RaceRuns == 1
\* buckets the account owns before the first run
MaxLegacy == 2
\* generated names per region that other tenants hold (RaceSpec)
RaceTaken == 1
\* environments of the account scheme that migrate_state walks through
NEnvs == 2
\* successive runs of migrate_state (MigrateSpec)
MigrateRuns == 2
\* next() calls on one ECSEventIterator
MaxPolls == 3
\* the largest runningCount and desiredCount of a deployment
MaxCount == 1
\* build_service_name calls in succession
MaxNameCalls == 2
\* the longest environment name given to build_service_name
MaxEnvironmentLength == 26
\* the longest component name given to build_service_name
MaxComponentLength == 23
\* init runs of the backend-config writer in succession
MaxInitRuns == 2
\* deploy runs in succession
MaxDeployRuns == 2
\* buckets of the account that are deleted while get_bucket_name runs
MaxDeletes == 1
\* destroy runs in succession
MaxDestroyRuns == 2
\* the latest reading of time()
MaxClock == 3
MaxMonitorRuns == 2
MaxCycles == 6

\* ------------------------------------------------------- program constants
TAG_NAME == "is-cdflow-tfstate-bucket"
TAG_VALUE == "true"
NAME_PREFIX == "cdflow-tfstate"
\* (a variant with one attempt more)
MaxCreationAttemptsOffByOne == 10 + 1

MAX_CREATION_ATTEMPTS == 10

Procs == 1..NProcs
Regions == {"eu-west-1", "us-east-1"}
ACCOUNT_ID == "123456789"
\* get_bucket_location answers None for a bucket of the S3 default region
NoneLocation == "None"
Locations == Regions \cup {NoneLocation}

\* ------------------------------------------------------------------ state
VARIABLES
    s3,           \* the global bucket namespace: name -> [owner, loc, tags]
    region,       \* boto_session.region_name of each process
    pc,           \* position of each process inside get_bucket_name
    unchecked,    \* listed buckets the set comprehension has not visited yet
    cur,          \* the bucket whose location is being fetched
    tagged,       \* tagged_buckets
    attempt,      \* loop variable of _create_bucket
    bucket_name,  \* local bucket_name of get_bucket_name
    result,       \* the returned name, or the exception raised
    createCalls,  \* create_bucket calls issued by the run: <<[name, answer]>>
    tagCalls,     \* put_bucket_tagging calls issued by the run
    s3Init,       \* the namespace before the first run
    s3AtStart,    \* the namespace as it was when the run listed the buckets
    runs,         \* the number of runs each process has started
    prev          \* how the previous run of the process ended: [pc, result]

bucketVars == <<s3, region, pc, unchecked, cur, tagged, attempt, bucket_name,
                result, createCalls, tagCalls, s3Init, s3AtStart, runs, prev>>

VARIABLES
    table,        \* the DynamoDB table terraform_locks of the account
    tpc,          \* position of each process inside get_table_name
    described,    \* response['Table'] of describe_table
    tresult,      \* the returned table name, or the exception raised
    tcalls,       \* the DynamoDB calls issued by the run: <<[op, args, answer]>>
    tableInit     \* the table before the first run

tableVars == <<table, tpc, described, tresult, tcalls, tableInit>>

VARIABLES
    oldBucket,    \* the legacy state bucket: key -> body
    newBucket,    \* the state bucket of the new scheme: key -> [body, mtime]
    mpc,          \* position of each process inside migrate_state
    menv,         \* index of the environment the process is working on
    mbody,        \* the bytes the process read from the legacy object
    mruns,        \* the number of migrate_state runs each process has started
    mputs,        \* put_object calls of migrate_state so far, per key
    interrupted,  \* environments a run was stopped in between copy and marker
    newInit       \* the new bucket before the first run

migrateVars == <<oldBucket, newBucket, mpc, menv, mbody, mruns, mputs,
                 interrupted, newInit>>

VARIABLES
    taskDefs,     \* ECS: task-definition ARN -> image of its first container
    response,     \* the deployments describe_services answered in the last poll
    _done,        \* ECSEventIterator._done
    cache,        \* the lru_cache of _get_release_image, least recent first
    event,        \* what the last next() returned or raised
    ecsCalls,     \* the ECS calls the last next() issued
    polls,        \* the number of next() calls so far
    doneEvents,   \* the number of DoneEvents returned so far
    sinceDone     \* the kinds of outcome of the next() calls after a DoneEvent

ecsVars == <<taskDefs, response, _done, cache, event, ecsCalls, polls,
             doneEvents, sinceDone>>

VARIABLES
    svcLog        \* the build_service_name calls so far: <<[environment,
                  \* component, name]>>

svcVars == <<svcLog>>

VARIABLES
    raw_scheme,   \* the raw scheme handed to AccountScheme.create
    scheme,       \* the AccountScheme that create returned
    created,      \* how create ended: the class returned or raised
    lookup        \* the last account_for_environment call: [environment,
                  \* kind, account]

accountVars == <<raw_scheme, scheme, created, lookup>>

VARIABLES
    workspaces,   \* the workspaces of the Terraform backend
    current,      \* the workspace the working directory has selected
    wpc,          \* position of the writer inside init
    wenv,         \* the environment name the writer was built with
    listed,       \* the names the writer read from `workspace list`
    commands,     \* the external-tool invocations of the run, in order
    wruns         \* the number of init runs started

workspaceVars == <<workspaces, current, wpc, wenv, listed, commands, wruns>>

VARIABLES
    plan,         \* Deployment.plan: the --plan flag of the run
    dversion,     \* Deployment.version: the version the run deploys
    dpc,          \* position of the run inside Deployment.run
    invocations,  \* the external-tool invocations of the run: <<name, exit ok>>
    infra,        \* the version the infrastructure of the environment runs
    druns         \* the number of deploy runs started

deployVars == <<plan, dversion, dpc, invocations, infra, druns>>

VARIABLES
    plan_only,    \* the plan_only argument of Destroy.run
    _plan_path,   \* Destroy._plan_path, <<>> while the attribute is not set
    xpc,          \* position of the run inside Destroy.run
    destroyCalls, \* the check_call invocations of the run: [step, path, ok]
    clock,        \* time()
    xruns         \* the number of destroy runs started

destroyVars == <<plan_only, _plan_path, xpc, destroyCalls, clock, xruns>>

VARIABLES
    rpc,          \* position of Deployment.run around its monitoring loop
    ecs_service_update_finished, \* the flag of the service update phase
    ecs_deploy_finished,         \* the flag of the ECS deploy phase
    elbv2_deploy_finished,       \* the flag of the ELB health phase
    deploy_finished,             \* the flag that ends the loop
    deploy_success_count, \* cycles counted towards the ELB phase
    cycles,       \* the number of poll cycles the run went through
    equalCycles,  \* cycles whose healthy count equalled desiredCount
    lastPoll,     \* what the last poll cycle saw of the ELB
    files,        \* which of .terraform and .terragrunt exist in the cwd
    rruns         \* the number of runs started

monitorVars ==
    <<rpc, ecs_service_update_finished, ecs_deploy_finished,
      elbv2_deploy_finished, deploy_finished, deploy_success_count,
      cycles, equalCycles, lastPoll, files, rruns>>

vars ==
    <<bucketVars, tableVars, migrateVars, ecsVars,
      svcVars, accountVars, workspaceVars, deployVars, destroyVars,
      monitorVars>>

\* what the actions of one component leave alone
notBucketVars ==
    <<tableVars, migrateVars, ecsVars, svcVars,
      accountVars, workspaceVars, deployVars, destroyVars,
      monitorVars>>
notTableVars ==
    <<bucketVars, migrateVars, ecsVars, svcVars,
      accountVars, workspaceVars, deployVars, destroyVars,
      monitorVars>>
notMigrateVars ==
    <<bucketVars, tableVars, ecsVars, svcVars,
      accountVars, workspaceVars, deployVars, destroyVars,
      monitorVars>>
notEcsVars ==
    <<bucketVars, tableVars, migrateVars, svcVars,
      accountVars, workspaceVars, deployVars, destroyVars,
      monitorVars>>
notSvcVars ==
    <<bucketVars, tableVars, migrateVars, ecsVars,
      accountVars, workspaceVars, deployVars, destroyVars,
      monitorVars>>
notAccountVars ==
    <<bucketVars, tableVars, migrateVars, ecsVars,
      svcVars, workspaceVars, deployVars, destroyVars,
      monitorVars>>
notWorkspaceVars ==
    <<bucketVars, tableVars, migrateVars, ecsVars,
      svcVars, accountVars, deployVars, destroyVars,
      monitorVars>>
notDeployVars ==
    <<bucketVars, tableVars, migrateVars, ecsVars,
      svcVars, accountVars, workspaceVars, destroyVars,
      monitorVars>>
notDestroyVars ==
    <<bucketVars, tableVars, migrateVars, ecsVars, svcVars, accountVars,
      workspaceVars, deployVars, monitorVars>>
notMonitorVars ==
    <<bucketVars, tableVars, migrateVars, ecsVars, svcVars, accountVars,
      workspaceVars, deployVars, destroyVars>>

\* ---------------------------------------------------------- pure functions
\* the TagSet of a bucket: no tag set at all (NoSuchTagSet), a tag set without
\* the sentinel tag, or a tag set holding TAG_NAME=TAG_VALUE
NoTagSet == [kind |-> "NoSuchTagSet", tags |-> {}]
OtherTagSet == [kind |-> "TagSet", tags |-> {<<"team", "platform">>}]
SentinelTagSet == [kind |-> "TagSet", tags |-> {<<TAG_NAME, TAG_VALUE>>}]
TagSets == {NoTagSet, OtherTagSet, SentinelTagSet}

\* _generate_bucket_name: prefix + sha1(region + account_id + attempt)[:12].
\* The digest is modelled as an injective function of the concatenated text.
_generate_bucket_name(aws_region, account_id, n) ==
    <<NAME_PREFIX, aws_region, account_id, ToString(n)>>

LegacyName(i) == <<"state-bucket", ToString(i)>>
LegacyNames == {LegacyName(i) : i \in 1..MaxLegacy}
GeneratedNames ==
    {_generate_bucket_name(r, ACCOUNT_ID, a) :
        r \in Regions, a \in 0..(MAX_CREATION_ATTEMPTS - 1)}
Names == LegacyNames \cup GeneratedNames

NoBucket == [owner |-> "none", loc |-> NoneLocation, tags |-> NoTagSet]
Exists(b) == b.owner # "none"

\* the ClientError a call on a bucket that no longer exists is answered with
NoSuchBucket == <<"ClientError", "NoSuchBucket">>

\* (a variant that reads a missing tag set as the sentinel tag set)
TagsOrSentinel(b) ==
    IF b.tags.kind = "NoSuchTagSet" THEN SentinelTagSet.tags ELSE b.tags.tags

\* _get_bucket_tags: NoSuchTagSet is answered by the empty dict
_get_bucket_tags(b) ==
    IF b.tags.kind = "NoSuchTagSet" THEN {} ELSE b.tags.tags

\* (a variant that compares the tag value with another spelling)
HasTagWrongCase(b) == <<TAG_NAME, "True">> \in _get_bucket_tags(b)

\* _bucket_has_tag: tags.get(TAG_NAME) == TAG_VALUE
_bucket_has_tag(b) == <<TAG_NAME, TAG_VALUE>> \in _get_bucket_tags(b)

\* (a variant that takes a bucket of any region)
InAnyRegion(b, aws_region) == b.loc \in Locations

\* _bucket_in_current_region: LocationConstraint == self._aws_region
_bucket_in_current_region(b, aws_region) == b.loc = aws_region

\* the answer of S3 to create_bucket(Bucket=name)
CreateAnswer(bucket) ==
    CASE bucket.owner = "none" -> "ok"
      [] bucket.owner = "self" -> "BucketAlreadyOwnedByYou"
      [] OTHER -> "BucketAlreadyExists"

\* _attempt_to_create_bucket: the two "already exists" codes answer False,
\* any other ClientError is re-raised
IsAlreadyExists(answer) ==
    answer \in {"BucketAlreadyExists", "BucketAlreadyOwnedByYou"}

\* ---------------------------------------------------------------- initial
\* What a bucket of the account can look like before the first run.  The
\* location of a bucket without the sentinel tag is never fetched, so one
\* location stands for all of them.
LegacyConfigs ==
    <<NoBucket,
      [owner |-> "self", loc |-> "eu-west-1", tags |-> NoTagSet],
      [owner |-> "self", loc |-> "eu-west-1", tags |-> OtherTagSet],
      [owner |-> "self", loc |-> NoneLocation, tags |-> SentinelTagSet],
      [owner |-> "self", loc |-> "eu-west-1", tags |-> SentinelTagSet],
      [owner |-> "self", loc |-> "us-east-1", tags |-> SentinelTagSet]>>

\* Buckets of other tenants occupy the first k generated names of every
\* region; the account owns up to MaxLegacy buckets (the legacy names are
\* interchangeable, so their configurations are drawn in ascending order).
BucketInit(maxTaken) ==
    /\ \E k \in 0..maxTaken :
       \E cfg \in [1..MaxLegacy -> 1..Len(LegacyConfigs)] :
          /\ \A i, j \in 1..MaxLegacy : i < j => cfg[i] <= cfg[j]
          /\ s3 = [n \in Names |->
                  IF n \in LegacyNames
                  THEN LegacyConfigs[cfg[CHOOSE i \in 1..MaxLegacy :
                                            n = LegacyName(i)]]
                  ELSE IF \E r \in Regions, a \in 0..(k - 1) :
                            n = _generate_bucket_name(r, ACCOUNT_ID, a)
                       THEN [owner |-> "other", loc |-> NoneLocation,
                             tags |-> NoTagSet]
                       ELSE NoBucket]
    /\ region \in {[p \in Procs |-> r] : r \in Regions}
    /\ pc = [p \in Procs |-> "idle"]
    /\ unchecked = [p \in Procs |-> {}]
    /\ cur = [p \in Procs |-> <<>>]
    /\ tagged = [p \in Procs |-> {}]
    /\ attempt = [p \in Procs |-> 0]
    /\ bucket_name = [p \in Procs |-> <<>>]
    /\ result = [p \in Procs |-> <<>>]
    /\ createCalls = [p \in Procs |-> <<>>]
    /\ tagCalls = [p \in Procs |-> <<>>]
    /\ s3Init = s3
    /\ s3AtStart = [p \in Procs |-> s3]
    /\ runs = [p \in Procs |-> 0]
    /\ prev = [p \in Procs |-> [pc |-> "idle", result |-> <<>>]]

\* ---------------------------------------------------------------- actions
Running(p) == pc[p] \notin {"idle", "done", "failed"}

\* a new S3BucketFactory and get_bucket_name up to list_buckets: the names of
\* the account's own buckets
ListBuckets(p, maxRuns) ==
    /\ ~Running(p)
    /\ runs[p] < maxRuns
    /\ runs' = [runs EXCEPT ![p] = @ + 1]
    /\ prev' = [prev EXCEPT ![p] = [pc |-> pc[p], result |-> result[p]]]
    /\ unchecked' = [unchecked EXCEPT ![p] = {n \in Names : s3[n].owner = "self"}]
    /\ tagged' = [tagged EXCEPT ![p] = {}]
    /\ s3AtStart' = [s3AtStart EXCEPT ![p] = s3]
    /\ cur' = [cur EXCEPT ![p] = <<>>]
    /\ attempt' = [attempt EXCEPT ![p] = 0]
    /\ bucket_name' = [bucket_name EXCEPT ![p] = <<>>]
    /\ result' = [result EXCEPT ![p] = <<>>]
    /\ createCalls' = [createCalls EXCEPT ![p] = <<>>]
    /\ tagCalls' = [tagCalls EXCEPT ![p] = <<>>]
    /\ pc' = [pc EXCEPT ![p] = "filter"]
    /\ UNCHANGED <<s3, region, s3Init>>
    /\ UNCHANGED notBucketVars

\* the set comprehension visits a listed bucket: get_bucket_tagging
\* (a ClientError of a code other than NoSuchTagSet is re-raised)
GetBucketTagging(p) ==
    /\ pc[p] = "filter"
    /\ \E n \in unchecked[p] :
         IF ~Exists(s3[n])
         THEN /\ pc' = [pc EXCEPT ![p] = "failed"]
              /\ result' = [result EXCEPT ![p] = NoSuchBucket]
              /\ cur' = [cur EXCEPT ![p] = n]
              /\ UNCHANGED unchecked
         ELSE IF _bucket_has_tag(s3[n])
         THEN /\ cur' = [cur EXCEPT ![p] = n]
              /\ pc' = [pc EXCEPT ![p] = "location"]
              /\ UNCHANGED <<unchecked, result>>
         ELSE /\ unchecked' = [unchecked EXCEPT ![p] = @ \ {n}]
              /\ UNCHANGED <<cur, pc, result>>
    /\ UNCHANGED <<s3, region, tagged, attempt, bucket_name,
                   createCalls, tagCalls, s3Init, s3AtStart, runs, prev>>
    /\ UNCHANGED notBucketVars

\* ... and, for a bucket that has the tag, get_bucket_location
\* (a ClientError of get_bucket_location is not caught)
GetBucketLocation(p) ==
    /\ pc[p] = "location"
    /\ IF ~Exists(s3[cur[p]])
       THEN /\ pc' = [pc EXCEPT ![p] = "failed"]
            /\ result' = [result EXCEPT ![p] = NoSuchBucket]
            /\ UNCHANGED <<tagged, unchecked, cur>>
       ELSE /\ tagged' = [tagged EXCEPT ![p] =
                    IF _bucket_in_current_region(s3[cur[p]], region[p])
                    THEN @ \cup {cur[p]} ELSE @]
            /\ unchecked' = [unchecked EXCEPT ![p] = @ \ {cur[p]}]
            /\ cur' = [cur EXCEPT ![p] = <<>>]
            /\ pc' = [pc EXCEPT ![p] = "filter"]
            /\ UNCHANGED result
    /\ UNCHANGED <<s3, region, attempt, bucket_name, createCalls,
                   tagCalls, s3Init, s3AtStart, runs, prev>>
    /\ UNCHANGED notBucketVars

\* the assert and the branch on len(tagged_buckets)
SelectBucket(p) ==
    /\ pc[p] = "filter"
    /\ unchecked[p] = {}
    /\ IF Cardinality(tagged[p]) > 1
       THEN /\ pc' = [pc EXCEPT ![p] = "failed"]
            /\ result' = [result EXCEPT ![p] = <<"AssertionError">>]
            /\ UNCHANGED attempt
       ELSE IF Cardinality(tagged[p]) = 1
       THEN /\ pc' = [pc EXCEPT ![p] = "done"]
            /\ result' = [result EXCEPT ![p] = CHOOSE n \in tagged[p] : TRUE]
            /\ UNCHANGED attempt
       ELSE /\ pc' = [pc EXCEPT ![p] = "create"]
            /\ attempt' = [attempt EXCEPT ![p] = 0]
            /\ UNCHANGED result
    /\ UNCHANGED <<s3, region, unchecked, cur, tagged, bucket_name,
                   createCalls, tagCalls, s3Init, s3AtStart, runs, prev>>
    /\ UNCHANGED notBucketVars

\* _create_bucket: one iteration of the loop, _attempt_to_create_bucket
AttemptToCreateBucket(p) ==
    /\ pc[p] = "create"
    /\ attempt[p] < MAX_CREATION_ATTEMPTS
    /\ LET name == _generate_bucket_name(region[p], ACCOUNT_ID, attempt[p])
           answer == CreateAnswer(s3[name])
       IN /\ createCalls' = [createCalls EXCEPT ![p] =
                               Append(@, [name |-> name, answer |-> answer])]
          /\ IF IsAlreadyExists(answer)
             THEN /\ attempt' = [attempt EXCEPT ![p] = @ + 1]
                  /\ IF attempt[p] + 1 = MAX_CREATION_ATTEMPTS
                     THEN /\ pc' = [pc EXCEPT ![p] = "failed"]
                          /\ result' = [result EXCEPT ![p] = <<"Exception">>]
                     ELSE UNCHANGED <<pc, result>>
                  /\ UNCHANGED <<s3, bucket_name>>
             ELSE /\ s3' = [s3 EXCEPT ![name] =
                              [owner |-> "self", loc |-> region[p],
                               tags |-> NoTagSet]]
                  /\ bucket_name' = [bucket_name EXCEPT ![p] = name]
                  /\ pc' = [pc EXCEPT ![p] = "tag"]
                  /\ UNCHANGED <<attempt, result>>
    /\ UNCHANGED <<region, unchecked, cur, tagged, tagCalls, s3Init,
                   s3AtStart, runs, prev>>
    /\ UNCHANGED notBucketVars

\* create_bucket answers a ClientError of another code: re-raised
CreateBucketError(p) ==
    /\ pc[p] = "create"
    /\ attempt[p] < MAX_CREATION_ATTEMPTS
    /\ LET name == _generate_bucket_name(region[p], ACCOUNT_ID, attempt[p])
       IN createCalls' = [createCalls EXCEPT ![p] =
                            Append(@, [name |-> name, answer |-> "AccessDenied"])]
    /\ pc' = [pc EXCEPT ![p] = "failed"]
    /\ result' = [result EXCEPT ![p] = <<"ClientError">>]
    /\ UNCHANGED <<s3, region, unchecked, cur, tagged, attempt, bucket_name,
                   tagCalls, s3Init, s3AtStart, runs, prev>>
    /\ UNCHANGED notBucketVars

\* (a variant tagging the first candidate name instead of the created one)
TagBucketFirstCandidate(p) ==
    /\ pc[p] = "tag"
    /\ LET first == _generate_bucket_name(region[p], ACCOUNT_ID, 0)
       IN /\ s3' = [s3 EXCEPT ![first].tags = SentinelTagSet]
          /\ tagCalls' = [tagCalls EXCEPT ![p] = Append(@, first)]
    /\ pc' = [pc EXCEPT ![p] = "done"]
    /\ result' = [result EXCEPT ![p] = bucket_name[p]]
    /\ UNCHANGED <<region, unchecked, cur, tagged, attempt, bucket_name,
                   createCalls, s3Init, s3AtStart, runs, prev>>
    /\ UNCHANGED notBucketVars

\* _tag_bucket and the return of get_bucket_name
TagBucket(p) ==
    /\ pc[p] = "tag"
    /\ s3' = [s3 EXCEPT ![bucket_name[p]].tags = SentinelTagSet]
    /\ tagCalls' = [tagCalls EXCEPT ![p] = Append(@, bucket_name[p])]
    /\ pc' = [pc EXCEPT ![p] = "done"]
    /\ result' = [result EXCEPT ![p] = bucket_name[p]]
    /\ UNCHANGED <<region, unchecked, cur, tagged, attempt, bucket_name,
                   createCalls, s3Init, s3AtStart, runs, prev>>
    /\ UNCHANGED notBucketVars

\* put_bucket_tagging answers a ClientError: it propagates, the bucket stays
TagBucketError(p) ==
    /\ pc[p] = "tag"
    /\ pc' = [pc EXCEPT ![p] = "failed"]
    /\ result' = [result EXCEPT ![p] = <<"ClientError">>]
    /\ UNCHANGED <<s3, region, unchecked, cur, tagged, attempt, bucket_name,
                   createCalls, tagCalls, s3Init, s3AtStart, runs, prev>>
    /\ UNCHANGED notBucketVars

\* the buckets of the account that were there before the first run and are
\* gone
Deleted == {n \in Names : s3Init[n].owner = "self" /\ ~Exists(s3[n])}

\* somebody else deletes a bucket of the account (delete_bucket of another
\* client, as in test_handle_missing_buckets)
DeleteBucket(n) ==
    /\ s3[n].owner = "self"
    /\ s3Init[n].owner = "self"
    /\ Cardinality(Deleted) < MaxDeletes
    /\ s3' = [s3 EXCEPT ![n] = NoBucket]
    /\ UNCHANGED <<region, pc, unchecked, cur, tagged, attempt, bucket_name,
                   result, createCalls, tagCalls, s3Init, s3AtStart, runs,
                   prev>>
    /\ UNCHANGED notBucketVars

BucketStep(p) ==
    \/ GetBucketTagging(p)
    \/ GetBucketLocation(p)
    \/ SelectBucket(p)
    \/ AttemptToCreateBucket(p)
    \/ CreateBucketError(p)
    \/ TagBucket(p)
    \/ TagBucketError(p)

\* ------------------------------------------------------- LockTableFactory
TABLE_NAME == "terraform_locks"
LOCK_TAG_NAME == "cdflow_terraform_locks"
LOCK_TAG_VALUE == "true"
TABLE_ARN == "arn:aws:dynamodb:table/terraform_locks"

NoTable ==
    [status |-> "absent", attrs |-> {}, keys |-> {}, rcu |-> 0, wcu |-> 0,
     tags |-> {}]

\* the arguments of create_table in _create_table
CreateTableArgs ==
    [TableName |-> TABLE_NAME,
     AttributeDefinitions |-> {<<"LockID", "S">>},
     KeySchema |-> {<<"LockID", "HASH">>},
     ReadCapacityUnits |-> 1,
     WriteCapacityUnits |-> 1]

\* the arguments of tag_resource in _create_table
TagResourceArgs ==
    [ResourceArn |-> TABLE_ARN, Tags |-> {<<LOCK_TAG_NAME, LOCK_TAG_VALUE>>}]

\* (a variant that accepts any attribute definition)
AnyAttribute(table_definition) == table_definition.attrs # {}

\* _check_schema: some attribute definition is named LockID
_check_schema(table_definition) ==
    \E a \in table_definition.attrs : a[1] = "LockID"

\* _check_tag: some tag of the resource is TAG_NAME=TAG_VALUE
_check_tag(tags) ==
    \E t \in tags : t[1] = LOCK_TAG_NAME /\ t[2] = LOCK_TAG_VALUE

\* ClientError codes of describe_table other than "resource not found"
OtherErrorCodes == {"TerribleError", "AccessDeniedException"}

\* (a variant that takes every ClientError for "resource not found")
AnyClientError(code) == code # "ok"

\* _resource_not_found
_resource_not_found(code) == code = "ResourceNotFoundException"

Call(op, args, answer) == [op |-> op, args |-> args, answer |-> answer]

\* a table that exists before the first run: any schema, any tags
TableInit ==
    /\ table \in {NoTable} \cup
          [status : {"ACTIVE"},
           attrs : {{<<"LockID", "S">>}, {<<"IncorrectColumn", "S">>}},
           keys : {{<<"LockID", "HASH">>}},
           rcu : {1}, wcu : {1},
           tags : {{}, {<<"team", "platform">>},
                   {<<LOCK_TAG_NAME, LOCK_TAG_VALUE>>}}]
    /\ tpc = [p \in Procs |-> "idle"]
    /\ described = [p \in Procs |-> NoTable]
    /\ tresult = [p \in Procs |-> ""]
    /\ tcalls = [p \in Procs |-> <<>>]
    /\ tableInit = table

TableQuiet ==
    /\ table = NoTable
    /\ tpc = [p \in Procs |-> "idle"]
    /\ described = [p \in Procs |-> NoTable]
    /\ tresult = [p \in Procs |-> ""]
    /\ tcalls = [p \in Procs |-> <<>>]
    /\ tableInit = table

\* get_table_name, _try_to_get_table: describe_table; "resource not found"
\* leads to _create_table
DescribeTable(p) ==
    /\ tpc[p] = "idle"
    /\ IF table.status = "absent"
       THEN LET code == "ResourceNotFoundException"
            IN /\ tcalls' = [tcalls EXCEPT ![p] =
                    Append(@, Call("describe_table",
                                   [TableName |-> TABLE_NAME], code))]
               /\ tpc' = [tpc EXCEPT ![p] =
                    IF _resource_not_found(code) THEN "create" ELSE "failed"]
               /\ UNCHANGED described
       ELSE /\ tcalls' = [tcalls EXCEPT ![p] =
                 Append(@, Call("describe_table",
                                [TableName |-> TABLE_NAME], "ok"))]
            /\ described' = [described EXCEPT ![p] = table]
            /\ tpc' = [tpc EXCEPT ![p] = "check"]
    /\ UNCHANGED <<table, tresult>>
    /\ UNCHANGED <<tableInit, notTableVars>>

\* get_table_name: describe_table raises a ClientError of another code, which
\* is re-raised as it is; the result is the code of the error that left
DescribeTableError(p) ==
    /\ tpc[p] = "idle"
    /\ \E code \in OtherErrorCodes :
          /\ tcalls' = [tcalls EXCEPT ![p] =
               Append(@, Call("describe_table",
                              [TableName |-> TABLE_NAME], code))]
          /\ IF _resource_not_found(code)
             THEN /\ tpc' = [tpc EXCEPT ![p] = "create"]
                  /\ UNCHANGED tresult
             ELSE /\ tpc' = [tpc EXCEPT ![p] = "failed"]
                  /\ tresult' = [tresult EXCEPT ![p] = code]
    /\ UNCHANGED <<table, described>>
    /\ UNCHANGED <<tableInit, notTableVars>>

\* (a variant that validates the schema before the tag)
CheckTableSchemaFirst(p) ==
    /\ tpc[p] = "check"
    /\ tcalls' = [tcalls EXCEPT ![p] =
          Append(@, Call("list_tags_of_resource",
                         [ResourceArn |-> TABLE_ARN],
                         IF _check_tag(table.tags) THEN "tagged"
                                                   ELSE "untagged"))]
    /\ IF ~_check_schema(described[p])
       THEN /\ tpc' = [tpc EXCEPT ![p] = "failed"]
            /\ tresult' = [tresult EXCEPT ![p] = "IncorrectSchemaError"]
       ELSE IF ~_check_tag(table.tags)
       THEN /\ tpc' = [tpc EXCEPT ![p] = "failed"]
            /\ tresult' = [tresult EXCEPT ![p] = "MissingTagError"]
       ELSE /\ tpc' = [tpc EXCEPT ![p] = "done"]
            /\ tresult' = [tresult EXCEPT ![p] = TABLE_NAME]
    /\ UNCHANGED <<table, described>>
    /\ UNCHANGED <<tableInit, notTableVars>>

\* (a variant that skips _check_tag)
CheckTableSchemaOnly(p) ==
    /\ tpc[p] = "check"
    /\ IF ~_check_schema(described[p])
       THEN /\ tpc' = [tpc EXCEPT ![p] = "failed"]
            /\ tresult' = [tresult EXCEPT ![p] = "IncorrectSchemaError"]
       ELSE /\ tpc' = [tpc EXCEPT ![p] = "done"]
            /\ tresult' = [tresult EXCEPT ![p] = TABLE_NAME]
    /\ UNCHANGED <<table, described, tcalls>>
    /\ UNCHANGED <<tableInit, notTableVars>>

\* _try_to_get_table after describe_table: _check_tag (list_tags_of_resource),
\* then _check_schema on the describe_table response, then the return
CheckTable(p) ==
    /\ tpc[p] = "check"
    /\ tcalls' = [tcalls EXCEPT ![p] =
          Append(@, Call("list_tags_of_resource",
                         [ResourceArn |-> TABLE_ARN],
                         IF _check_tag(table.tags) THEN "tagged"
                                                   ELSE "untagged"))]
    /\ IF ~_check_tag(table.tags)
       THEN /\ tpc' = [tpc EXCEPT ![p] = "failed"]
            /\ tresult' = [tresult EXCEPT ![p] = "MissingTagError"]
       ELSE IF ~_check_schema(described[p])
       THEN /\ tpc' = [tpc EXCEPT ![p] = "failed"]
            /\ tresult' = [tresult EXCEPT ![p] = "IncorrectSchemaError"]
       ELSE /\ tpc' = [tpc EXCEPT ![p] = "done"]
            /\ tresult' = [tresult EXCEPT ![p] = TABLE_NAME]
    /\ UNCHANGED <<table, described>>
    /\ UNCHANGED <<tableInit, notTableVars>>

\* _create_table: create_table; DynamoDB refuses a name that is in use, and
\* the ClientError leaves get_table_name
CreateTable(p) ==
    /\ tpc[p] = "create"
    /\ IF table.status = "absent"
       THEN /\ table' = [status |-> "CREATING",
                         attrs |-> CreateTableArgs.AttributeDefinitions,
                         keys |-> CreateTableArgs.KeySchema,
                         rcu |-> CreateTableArgs.ReadCapacityUnits,
                         wcu |-> CreateTableArgs.WriteCapacityUnits,
                         tags |-> {}]
            /\ tcalls' = [tcalls EXCEPT ![p] =
                  Append(@, Call("create_table", CreateTableArgs, "ok"))]
            /\ tpc' = [tpc EXCEPT ![p] = "tag"]
            /\ UNCHANGED tresult
       ELSE /\ tcalls' = [tcalls EXCEPT ![p] =
                  Append(@, Call("create_table", CreateTableArgs,
                                 "ResourceInUseException"))]
            /\ tpc' = [tpc EXCEPT ![p] = "failed"]
            /\ tresult' = [tresult EXCEPT ![p] = "ResourceInUseException"]
            /\ UNCHANGED table
    /\ UNCHANGED described
    /\ UNCHANGED <<tableInit, notTableVars>>

\* (a variant that returns without waiting for the table)
TagResourceNoWait(p) ==
    /\ tpc[p] = "tag"
    /\ table' = [table EXCEPT !.tags = @ \cup TagResourceArgs.Tags]
    /\ tcalls' = [tcalls EXCEPT ![p] =
          Append(@, Call("tag_resource", TagResourceArgs, "ok"))]
    /\ tpc' = [tpc EXCEPT ![p] = "done"]
    /\ tresult' = [tresult EXCEPT ![p] = TABLE_NAME]
    /\ UNCHANGED described
    /\ UNCHANGED <<tableInit, notTableVars>>

\* _create_table: tag_resource on the ARN that create_table answered
TagResource(p) ==
    /\ tpc[p] = "tag"
    /\ table' = [table EXCEPT !.tags = @ \cup TagResourceArgs.Tags]
    /\ tcalls' = [tcalls EXCEPT ![p] =
          Append(@, Call("tag_resource", TagResourceArgs, "ok"))]
    /\ tpc' = [tpc EXCEPT ![p] = "wait"]
    /\ UNCHANGED <<described, tresult>>
    /\ UNCHANGED <<tableInit, notTableVars>>

\* _create_table: the table_exists waiter returns once the table is ACTIVE
WaitTableExists(p) ==
    /\ tpc[p] = "wait"
    /\ table.status = "ACTIVE"
    /\ tcalls' = [tcalls EXCEPT ![p] =
          Append(@, Call("wait", [TableName |-> TABLE_NAME], "ACTIVE"))]
    /\ tpc' = [tpc EXCEPT ![p] = "done"]
    /\ tresult' = [tresult EXCEPT ![p] = TABLE_NAME]
    /\ UNCHANGED <<table, described>>
    /\ UNCHANGED <<tableInit, notTableVars>>

\* DynamoDB finishes the creation of the table
TableBecomesActive ==
    /\ table.status = "CREATING"
    /\ table' = [table EXCEPT !.status = "ACTIVE"]
    /\ UNCHANGED <<tpc, described, tresult, tcalls>>
    /\ UNCHANGED <<tableInit, notTableVars>>

\* the process is stopped inside _create_table: before create_table, between
\* create_table and tag_resource, or in the wait
StopTable(p) ==
    /\ tpc[p] \in {"create", "tag", "wait"}
    /\ tpc' = [tpc EXCEPT ![p] = "stopped"]
    /\ tresult' = [tresult EXCEPT ![p] = tpc[p]]
    /\ UNCHANGED <<table, described, tcalls>>
    /\ UNCHANGED <<tableInit, notTableVars>>

TableStep(p) ==
    \/ DescribeTable(p)
    \/ DescribeTableError(p)
    \/ CheckTable(p)
    \/ CreateTable(p)
    \/ TagResource(p)
    \/ WaitTableExists(p)

BucketQuiet ==
    /\ s3 = [n \in Names |-> NoBucket]
    /\ region = [p \in Procs |-> "eu-west-1"]
    /\ pc = [p \in Procs |-> "idle"]
    /\ unchecked = [p \in Procs |-> {}]
    /\ cur = [p \in Procs |-> <<>>]
    /\ tagged = [p \in Procs |-> {}]
    /\ attempt = [p \in Procs |-> 0]
    /\ bucket_name = [p \in Procs |-> <<>>]
    /\ result = [p \in Procs |-> <<>>]
    /\ createCalls = [p \in Procs |-> <<>>]
    /\ tagCalls = [p \in Procs |-> <<>>]
    /\ s3Init = s3
    /\ s3AtStart = [p \in Procs |-> s3]
    /\ runs = [p \in Procs |-> 0]
    /\ prev = [p \in Procs |-> [pc |-> "idle", result |-> <<>>]]

\* ------------------------------------------------------------ migrate_state
\* Section 4.5 of the design: for each environment of the account scheme,
\* skip when the marker exists; else read the legacy object and skip when it
\* is absent; else put its bytes at the destination key, then put the marker.
\* Every S3 call is one atomic step.
TEAM == "platform"
COMPONENT == "svc"
EnvNames == <<"ci", "qa", "aslive", "live">>
Environments == SubSeq(EnvNames, 1, NEnvs)
EnvSet == {Environments[i] : i \in 1..NEnvs}

\* <environment>/<component>/terraform.tfstate in the legacy bucket
LegacyKey(component, environment) ==
    <<environment, component, "terraform.tfstate">>

\* (a variant that writes every environment's state to one key)
StateKeyOfFirstEnvironment(team, component, environment) ==
    <<team, component, Environments[1], "terraform.tfstate">>

\* <team>/<component>/<environment>/terraform.tfstate in the new bucket
StateKey(team, component, environment) ==
    <<team, component, environment, "terraform.tfstate">>

\* <team>/<component>/<environment>/MIGRATED in the new bucket
MarkerKey(team, component, environment) ==
    <<team, component, environment, "MIGRATED">>

\* the body of the marker object
MARKER_BODY == <<"1">>

\* the keys of the two buckets that belong to the component
LegacyKeys == {<<e, COMPONENT, "terraform.tfstate">> : e \in EnvSet}
NewKeys == {<<TEAM, COMPONENT, e, f>> :
               e \in EnvSet, f \in {"terraform.tfstate", "MIGRATED"}}

\* the state terraform stored for an environment under the legacy layout
LegacyState(environment) == <<environment, "state">>
\* a state terraform stores under the new layout after the migration
AppliedState(environment) == <<environment, "state", "applied">>

NoBody == <<>>
NoObject == [body |-> NoBody, mtime |-> 0]
ObjectExists(o) == o.body # NoBody

\* put_object: the body replaces the object, the last-modified time moves on
PutObject(bucket, key, body) ==
    [bucket EXCEPT ![key] = [body |-> body, mtime |-> @.mtime + 1]]

\* an account before the first run: each environment either was never
\* deployed, or has a legacy state that is not migrated, or has a legacy
\* state that an earlier run migrated
MigrateInit ==
    /\ \E deployed \in SUBSET EnvSet :
       \E migrated \in SUBSET deployed :
          /\ oldBucket = [k \in LegacyKeys |->
                IF k[1] \in deployed THEN LegacyState(k[1]) ELSE NoBody]
          /\ newBucket = [k \in NewKeys |->
                IF k[3] \notin migrated THEN NoObject
                ELSE IF k[4] = "MIGRATED"
                THEN [body |-> MARKER_BODY, mtime |-> 0]
                ELSE [body |-> LegacyState(k[3]), mtime |-> 0]]
    /\ mpc = [p \in Procs |-> "idle"]
    /\ menv = [p \in Procs |-> 1]
    /\ mbody = [p \in Procs |-> NoBody]
    /\ mruns = [p \in Procs |-> 0]
    /\ mputs = [k \in NewKeys |-> 0]
    /\ interrupted = {}
    /\ newInit = newBucket

MigrateQuiet ==
    /\ oldBucket = [k \in LegacyKeys |-> NoBody]
    /\ newBucket = [k \in NewKeys |-> NoObject]
    /\ mpc = [p \in Procs |-> "idle"]
    /\ menv = [p \in Procs |-> 1]
    /\ mbody = [p \in Procs |-> NoBody]
    /\ mruns = [p \in Procs |-> 0]
    /\ mputs = [k \in NewKeys |-> 0]
    /\ interrupted = {}
    /\ newInit = newBucket

\* the environment the process is working on
CurrentEnvironment(p) == Environments[menv[p]]

\* the loop over the environments moves on, or the run returns
NextEnvironment(p) ==
    /\ mbody' = [mbody EXCEPT ![p] = NoBody]
    /\ IF menv[p] < NEnvs
       THEN /\ menv' = [menv EXCEPT ![p] = @ + 1]
            /\ mpc' = [mpc EXCEPT ![p] = "marker"]
       ELSE /\ mpc' = [mpc EXCEPT ![p] = "done"]
            /\ UNCHANGED menv

\* migrate_state is invoked
StartMigrate(p, maxRuns) ==
    /\ mpc[p] \in {"idle", "done", "stopped"}
    /\ mruns[p] < maxRuns
    /\ mruns' = [mruns EXCEPT ![p] = @ + 1]
    /\ mpc' = [mpc EXCEPT ![p] = "marker"]
    /\ menv' = [menv EXCEPT ![p] = 1]
    /\ mbody' = [mbody EXCEPT ![p] = NoBody]
    /\ UNCHANGED <<oldBucket, newBucket, mputs, interrupted, newInit>>
    /\ UNCHANGED notMigrateVars

\* (a variant that reads the legacy object whether the marker exists or not)
CheckMarkerIgnored(p) ==
    /\ mpc[p] = "marker"
    /\ mpc' = [mpc EXCEPT ![p] = "read"]
    /\ UNCHANGED <<menv, mbody>>
    /\ UNCHANGED <<oldBucket, newBucket, mruns, mputs, interrupted, newInit>>
    /\ UNCHANGED notMigrateVars

\* step 1: the marker exists, the environment is skipped
CheckMarker(p) ==
    /\ mpc[p] = "marker"
    /\ IF ObjectExists(newBucket[MarkerKey(TEAM, COMPONENT,
                                           CurrentEnvironment(p))])
       THEN NextEnvironment(p)
       ELSE /\ mpc' = [mpc EXCEPT ![p] = "read"]
            /\ UNCHANGED <<menv, mbody>>
    /\ UNCHANGED <<oldBucket, newBucket, mruns, mputs, interrupted, newInit>>
    /\ UNCHANGED notMigrateVars

\* (a variant that returns at the first environment without a legacy object)
ReadLegacyStateOrReturn(p) ==
    /\ mpc[p] = "read"
    /\ LET body == oldBucket[LegacyKey(COMPONENT, CurrentEnvironment(p))]
       IN IF body = NoBody
          THEN /\ mpc' = [mpc EXCEPT ![p] = "done"]
               /\ UNCHANGED <<menv, mbody>>
          ELSE /\ mbody' = [mbody EXCEPT ![p] = body]
               /\ mpc' = [mpc EXCEPT ![p] = "copy"]
               /\ UNCHANGED menv
    /\ UNCHANGED <<oldBucket, newBucket, mruns, mputs, interrupted, newInit>>
    /\ UNCHANGED notMigrateVars

\* step 2: the legacy object is read; absent, the environment is skipped
ReadLegacyState(p) ==
    /\ mpc[p] = "read"
    /\ LET body == oldBucket[LegacyKey(COMPONENT, CurrentEnvironment(p))]
       IN IF body = NoBody
          THEN NextEnvironment(p)
          ELSE /\ mbody' = [mbody EXCEPT ![p] = body]
               /\ mpc' = [mpc EXCEPT ![p] = "copy"]
               /\ UNCHANGED menv
    /\ UNCHANGED <<oldBucket, newBucket, mruns, mputs, interrupted, newInit>>
    /\ UNCHANGED notMigrateVars

\* (a variant that puts the marker and never the state)
WriteMarkerWithoutCopy(p) ==
    /\ mpc[p] = "copy"
    /\ LET key == MarkerKey(TEAM, COMPONENT, CurrentEnvironment(p))
       IN /\ newBucket' = PutObject(newBucket, key, MARKER_BODY)
          /\ mputs' = [mputs EXCEPT ![key] = @ + 1]
    /\ mpc' = [mpc EXCEPT ![p] = "mark"]
    /\ UNCHANGED <<oldBucket, menv, mbody, mruns, interrupted, newInit>>
    /\ UNCHANGED notMigrateVars

\* step 3, first half: the bytes are put at the destination key
CopyState(p) ==
    /\ mpc[p] = "copy"
    /\ LET key == StateKey(TEAM, COMPONENT, CurrentEnvironment(p))
       IN /\ newBucket' = PutObject(newBucket, key, mbody[p])
          /\ mputs' = [mputs EXCEPT ![key] = @ + 1]
    /\ mpc' = [mpc EXCEPT ![p] = "mark"]
    /\ UNCHANGED <<oldBucket, menv, mbody, mruns, interrupted, newInit>>
    /\ UNCHANGED notMigrateVars

\* step 3, second half: the marker is put after the copy
WriteMarker(p) ==
    /\ mpc[p] = "mark"
    /\ LET key == MarkerKey(TEAM, COMPONENT, CurrentEnvironment(p))
       IN /\ newBucket' = PutObject(newBucket, key, MARKER_BODY)
          /\ mputs' = [mputs EXCEPT ![key] = @ + 1]
    /\ NextEnvironment(p)
    /\ UNCHANGED <<oldBucket, mruns, interrupted, newInit>>
    /\ UNCHANGED notMigrateVars

\* the process is stopped between two calls of a run
StopMigrate(p) ==
    /\ mpc[p] \in {"marker", "read", "copy", "mark"}
    /\ interrupted' = IF mpc[p] = "mark"
                      THEN interrupted \cup {CurrentEnvironment(p)}
                      ELSE interrupted
    /\ mpc' = [mpc EXCEPT ![p] = "stopped"]
    /\ mbody' = [mbody EXCEPT ![p] = NoBody]
    /\ UNCHANGED <<oldBucket, newBucket, menv, mruns, mputs, newInit>>
    /\ UNCHANGED notMigrateVars

\* terraform, run against the new backend of a migrated environment, stores
\* a new state at the destination key
TerraformWritesState(e) ==
    /\ ObjectExists(newBucket[MarkerKey(TEAM, COMPONENT, e)])
    /\ newBucket[StateKey(TEAM, COMPONENT, e)].body # AppliedState(e)
    /\ newBucket' = PutObject(newBucket, StateKey(TEAM, COMPONENT, e),
                              AppliedState(e))
    /\ UNCHANGED <<oldBucket, mpc, menv, mbody, mruns, mputs, interrupted,
                   newInit>>
    /\ UNCHANGED notMigrateVars

MigrateStep(p) ==
    \/ CheckMarker(p)
    \/ ReadLegacyState(p)
    \/ CopyState(p)
    \/ WriteMarker(p)

\* --------------------------------------------------------- ECSEventIterator
\* cdflow_commands/ecs_monitor.py: one iterator polled by its caller; every
\* next() is one step, the ECS answers being any the service can give.
VERSION == "1"
OTHER_VERSION == "2"
REGISTRY == <<"123456789.dkr.ecr.eu-west-1.amazonaws.com">>
CACHE_MAXSIZE == 10
TaskDefinitionArns == {"arn:task-definition/svc:1", "arn:task-definition/svc:2"}
Counts == 0..MaxCount

\* '{}:{}'.format(component, version), kept as the pair of its two fields
FormatImage(component, version) == <<component, version>>

\* an image is the sequence of the parts that '/' separates, each part a
\* tuple of fields: with a registry, with a registry and a namespace, or bare
Images ==
    {<<REGISTRY, FormatImage(COMPONENT, VERSION)>>,
     <<REGISTRY, FormatImage(COMPONENT, OTHER_VERSION)>>,
     <<REGISTRY, <<"library">>, FormatImage(COMPONENT, VERSION)>>,
     <<FormatImage(COMPONENT, VERSION)>>}

IndexError == <<"IndexError">>

\* (a variant that takes the part after the last '/')
SplitLastPart(image) == image[Len(image)]

\* image.split('/')[1]
SplitSecondPart(image) == IF Len(image) >= 2 THEN image[2] ELSE IndexError

Deployment(status, arn, running, desired) ==
    [status |-> status, taskDefinition |-> arn,
     runningCount |-> running, desiredCount |-> desired]

PrimaryDeployments ==
    {Deployment("PRIMARY", a, r, d) :
        a \in TaskDefinitionArns, r \in Counts, d \in Counts}

\* the deployment being replaced, still running at full count
OldDeployments ==
    {Deployment("ACTIVE", a, MaxCount, MaxCount) : a \in TaskDefinitionArns}

\* services['services'][0]['deployments'] of a describe_services answer
Responses ==
    {<<p>> : p \in PrimaryDeployments}
        \cup {<<o, p>> : o \in OldDeployments, p \in PrimaryDeployments}
        \cup {<<o>> : o \in OldDeployments}

NoDeployment == Deployment("IndexError", "", 0, 0)

\* (a variant that takes the first deployment whatever its status)
FirstDeployment(deployments) == deployments[1]

\* _get_primary_deployment: the first deployment whose status is PRIMARY
_get_primary_deployment(deployments) ==
    LET primary == {i \in 1..Len(deployments) :
                       deployments[i].status = "PRIMARY"}
    IN IF primary = {} THEN NoDeployment
       ELSE deployments[CHOOSE i \in primary : \A j \in primary : i <= j]

\* the entry of the lru_cache for an ARN, <<>> when there is none
CacheEntries(c, arn) == SelectSeq(c, LAMBDA x : x.arn = arn)

\* (a variant that keeps nothing)
CacheNothing(c, arn, image) == c

\* the lru_cache after a call for the ARN returned the image: the entry is
\* the most recent one, the least recent entry leaves a full cache
CacheAfter(c, arn, image) ==
    LET others == SelectSeq(c, LAMBDA x : x.arn # arn)
        all == Append(others, [arn |-> arn, image |-> image])
    IN IF Len(all) > CACHE_MAXSIZE THEN Tail(all) ELSE all

\* the events and the exceptions of next()
InProgressEvent(running, desired) ==
    [kind |-> "InProgressEvent", done |-> FALSE,
     running |-> running, desired |-> desired]
DoneEvent(running, desired) ==
    [kind |-> "DoneEvent", done |-> TRUE,
     running |-> running, desired |-> desired]
Raised(exception) ==
    [kind |-> exception, done |-> FALSE, running |-> 0, desired |-> 0]
NoEvent == Raised("none")
IsEvent(e) == e.kind \in {"InProgressEvent", "DoneEvent"}

\* ECSEventIterator.__init__ and the task definitions ECS holds, which never
\* change once registered
EcsInit ==
    /\ taskDefs \in [TaskDefinitionArns -> Images]
    /\ response = <<>>
    /\ _done = FALSE
    /\ cache = <<>>
    /\ event = NoEvent
    /\ ecsCalls = <<>>
    /\ polls = 0
    /\ doneEvents = 0
    /\ sinceDone = {}

EcsQuiet ==
    /\ taskDefs = [a \in TaskDefinitionArns |->
                      <<REGISTRY, FormatImage(COMPONENT, VERSION)>>]
    /\ response = <<>>
    /\ _done = FALSE
    /\ cache = <<>>
    /\ event = NoEvent
    /\ ecsCalls = <<>>
    /\ polls = 0
    /\ doneEvents = 0
    /\ sinceDone = {}

\* the outcome of a next() call enters the history
Outcome(e) ==
    /\ event' = e
    /\ polls' = IF polls < MaxPolls THEN polls + 1 ELSE polls
    /\ doneEvents' = IF e.kind = "DoneEvent" THEN doneEvents + 1
                                             ELSE doneEvents
    /\ sinceDone' = IF doneEvents > 0 THEN sinceDone \cup {e.kind}
                                      ELSE sinceDone

\* (a variant that never sets the latch)
NextWithoutLatch ==
    /\ polls < MaxPolls
    /\ \E r \in Responses :
          LET primary_deployment == _get_primary_deployment(r)
              arn == primary_deployment.taskDefinition
              cached == CacheEntries(cache, arn)
              release_image ==
                  IF cached # <<>> THEN cached[1].image
                  ELSE SplitSecondPart(taskDefs[arn])
              running == primary_deployment.runningCount
              desired == primary_deployment.desiredCount
          IN /\ response' = r
             /\ _done' = _done
             /\ IF primary_deployment = NoDeployment
                THEN /\ Outcome(Raised("IndexError"))
                     /\ ecsCalls' = <<"describe_services">>
                     /\ UNCHANGED cache
                ELSE /\ ecsCalls' =
                          IF cached # <<>>
                          THEN <<"describe_services">>
                          ELSE <<"describe_services",
                                 "describe_task_definition">>
                     /\ IF release_image = IndexError
                        THEN /\ Outcome(Raised("IndexError"))
                             /\ UNCHANGED cache
                        ELSE /\ cache' = CacheAfter(cache, arn, release_image)
                             /\ IF release_image
                                       # FormatImage(COMPONENT, VERSION)
                                THEN Outcome(Raised("ImageDoesNotMatchError"))
                                ELSE IF running # desired
                                THEN Outcome(InProgressEvent(running, desired))
                                ELSE Outcome(DoneEvent(running, desired))
    /\ UNCHANGED taskDefs
    /\ UNCHANGED notEcsVars

\* ECSEventIterator.__next__: the body of one call
Poll ==
    /\ IF _done
       THEN /\ Outcome(Raised("StopIteration"))
            /\ ecsCalls' = <<>>
            /\ UNCHANGED <<response, _done, cache>>
       ELSE \E r \in Responses :
          LET primary_deployment == _get_primary_deployment(r)
              arn == primary_deployment.taskDefinition
              cached == CacheEntries(cache, arn)
              release_image ==
                  IF cached # <<>> THEN cached[1].image
                  ELSE SplitSecondPart(taskDefs[arn])
              running == primary_deployment.runningCount
              desired == primary_deployment.desiredCount
          IN /\ response' = r
             /\ IF primary_deployment = NoDeployment
                THEN /\ Outcome(Raised("IndexError"))
                     /\ ecsCalls' = <<"describe_services">>
                     /\ UNCHANGED <<cache, _done>>
                ELSE /\ ecsCalls' =
                          IF cached # <<>>
                          THEN <<"describe_services">>
                          ELSE <<"describe_services",
                                 "describe_task_definition">>
                     /\ IF release_image = IndexError
                        THEN /\ Outcome(Raised("IndexError"))
                             /\ UNCHANGED <<cache, _done>>
                        ELSE /\ cache' = CacheAfter(cache, arn, release_image)
                             /\ IF release_image
                                       # FormatImage(COMPONENT, VERSION)
                                THEN /\ Outcome(
                                          Raised("ImageDoesNotMatchError"))
                                     /\ UNCHANGED _done
                                ELSE IF running # desired
                                THEN /\ Outcome(
                                          InProgressEvent(running, desired))
                                     /\ UNCHANGED _done
                                ELSE /\ _done' = TRUE
                                     /\ Outcome(DoneEvent(running, desired))
    /\ UNCHANGED taskDefs
    /\ UNCHANGED notEcsVars

\* ECSEventIterator.__next__, called up to MaxPolls times
__next__ == polls < MaxPolls /\ Poll

\* `for event in iterator`: next() is called again after every event, until
\* it raises (StopIteration ends the loop, an error leaves it); the calls
\* are counted up to MaxPolls
Iterate ==
    /\ event.kind \in {"none", "InProgressEvent", "DoneEvent"}
    /\ Poll

\* ------------------------------------------------------ build_service_name
\* cdflow_commands/ecs_monitor.py.  A text is the sequence of its characters,
\* each character a one-element tuple; the characters of a sha1 hex digest
\* are kept apart by the text digested and by their position.
MAX_SERVICE_NAME_LENGTH == 32
SERVICE_NAME_PREFIX_LENGTH == 24
SERVICE_NAME_HASH_LENGTH == 4
SHA1_HEX_LENGTH == 40

Chr(c) == <<c>>
Repeat(c, n) == [i \in 1..n |-> Chr(c)]

\* sha1(text.encode('utf-8')).hexdigest()
Sha1HexDigest(text) == [i \in 1..SHA1_HEX_LENGTH |-> <<"hex", i, text>>]

\* '{}-{}'.format(environment, component)
JoinWithHyphen(environment, component) ==
    environment \o <<Chr("-")>> \o component

\* '{}tf{}'.format(prefix, suffix)
JoinWithTf(prefix, suffix) == prefix \o <<Chr("t"), Chr("f")>> \o suffix

\* (a variant that hashes the truncated name)
BuildServiceNameHashingPrefix(environment, component) ==
    LET service_name == JoinWithHyphen(environment, component)
    IN IF Len(service_name) > MAX_SERVICE_NAME_LENGTH
       THEN LET service_name_hash ==
                    Sha1HexDigest(
                        SubSeq(service_name, 1, SERVICE_NAME_PREFIX_LENGTH))
            IN JoinWithTf(
                   SubSeq(service_name, 1, SERVICE_NAME_PREFIX_LENGTH),
                   SubSeq(service_name_hash, 1, SERVICE_NAME_HASH_LENGTH))
       ELSE service_name

\* build_service_name
build_service_name(environment, component) ==
    LET service_name == JoinWithHyphen(environment, component)
    IN IF Len(service_name) > MAX_SERVICE_NAME_LENGTH
       THEN LET service_name_hash == Sha1HexDigest(service_name)
            IN JoinWithTf(
                   SubSeq(service_name, 1, SERVICE_NAME_PREFIX_LENGTH),
                   SubSeq(service_name_hash, 1, SERVICE_NAME_HASH_LENGTH))
       ELSE service_name

\* environment and component names of several lengths: joined, some stay
\* within 32 characters, some reach exactly 32 and some go beyond
EnvironmentNames ==
    {Repeat("e", n) : n \in {1, 4, MaxEnvironmentLength - 17,
                             MaxEnvironmentLength}}
ComponentNames ==
    {Repeat("c", n) : n \in {1, 5, MaxComponentLength - 1,
                             MaxComponentLength}}

ServiceNameInit == svcLog = <<>>
ServiceNameQuiet == svcLog = <<>>

\* one call of build_service_name
BuildServiceName ==
    /\ Len(svcLog) < MaxNameCalls
    /\ \E environment \in EnvironmentNames, component \in ComponentNames :
          svcLog' = Append(svcLog,
              [environment |-> environment, component |-> component,
               name |-> build_service_name(environment, component)])
    /\ UNCHANGED notSvcVars

\* ----------------------------------------------------------- AccountScheme
\* cdflow_commands/account.py: create on a raw scheme, then lookups on the
\* scheme it returned.
DEFAULT_ENV_KEY == "*"

\* Account.__init__
Account(alias, id, role) == [alias |-> alias, id |-> id, role |-> role]
NoAccount == Account("", "", "")

\* the accounts section of a raw scheme: alias -> [id, role]
RawAccounts ==
    {[a \in {"dev"} |-> [id |-> "123456789", role |-> "admin"]],
     [a \in {"dev", "prod"} |->
         IF a = "dev" THEN [id |-> "123456789", role |-> "admin"]
                      ELSE [id |-> "987654321", role |-> "admin"]]}

\* a value of the environments section: an account alias, or something that
\* is not a string
Str(text) == [type |-> "str", value |-> text]
NotStr == [type |-> "int", value |-> "1"]
RawEnvironmentValues == {Str("dev"), Str("prod"), NotStr}
RawEnvironmentKeys == {"live", "test", DEFAULT_ENV_KEY}
RawEnvironments ==
    UNION {[keys -> RawEnvironmentValues] : keys \in SUBSET RawEnvironmentKeys}

RawSchemes ==
    [accounts : RawAccounts,
     release_account : {"dev", "prod"},
     environments : RawEnvironments]

\* the environments account_for_environment is asked for
LookupEnvironments == {"live", "test", "ci"}

NoScheme ==
    [accounts |-> {}, release_account |-> NoAccount,
     environment_mapping |-> <<>>, default_factory |-> <<>>]
NoLookup == [environment |-> "", kind |-> "none", account |-> NoAccount]

AccountInit ==
    /\ raw_scheme \in RawSchemes
    /\ scheme = NoScheme
    /\ created = "none"
    /\ lookup = NoLookup

AccountQuiet ==
    /\ raw_scheme = [accounts |-> CHOOSE a \in RawAccounts : DOMAIN a = {"dev"},
                     release_account |-> "dev",
                     environments |-> <<>>]
    /\ scheme = NoScheme
    /\ created = "none"
    /\ lookup = NoLookup

\* the accounts dictionary of create: alias -> Account
AccountsByAlias(raw) ==
    [alias \in DOMAIN raw.accounts |->
        Account(alias, raw.accounts[alias].id, raw.accounts[alias].role)]

\* _get_env_mapping: the dictionary of the environments, every alias looked
\* up in accounts, and the default of the defaultdict when '*' is mapped;
\* KeyError when an alias is not among the accounts
_get_env_mapping(raw, accounts) ==
    LET envs == raw.environments
    IN IF \E env \in DOMAIN envs : envs[env].value \notin DOMAIN accounts
       THEN [raised |-> "KeyError", environment_mapping |-> <<>>,
             default_factory |-> <<>>]
       ELSE [raised |-> "",
             environment_mapping |->
                 [env \in DOMAIN envs |-> accounts[envs[env].value]],
             default_factory |->
                 IF DEFAULT_ENV_KEY \in DOMAIN envs
                 THEN <<accounts[envs[DEFAULT_ENV_KEY].value]>>
                 ELSE <<>>]

\* AccountScheme.create
Create ==
    /\ created = "none"
    /\ LET accounts == AccountsByAlias(raw_scheme)
           envs == raw_scheme.environments
           mapping == _get_env_mapping(raw_scheme, accounts)
       IN IF \E env \in DOMAIN envs : envs[env].type # "str"
          THEN /\ created' = "AssertionError"
               /\ UNCHANGED scheme
          ELSE IF mapping.raised # ""
          THEN /\ created' = mapping.raised
               /\ UNCHANGED scheme
          ELSE IF raw_scheme.release_account \notin DOMAIN accounts
          THEN /\ created' = "KeyError"
               /\ UNCHANGED scheme
          ELSE /\ created' = "AccountScheme"
               /\ scheme' =
                     [accounts |-> {accounts[a] : a \in DOMAIN accounts},
                      release_account |->
                          accounts[raw_scheme.release_account],
                      environment_mapping |-> mapping.environment_mapping,
                      default_factory |-> mapping.default_factory]
    /\ UNCHANGED <<raw_scheme, lookup>>
    /\ UNCHANGED notAccountVars

\* (a variant that builds a new Account for an environment without entry)
LookupMakingAccount(environment) ==
    /\ created = "AccountScheme"
    /\ IF environment \in DOMAIN scheme.environment_mapping
       THEN /\ lookup' = [environment |-> environment, kind |-> "Account",
                          account |->
                              scheme.environment_mapping[environment]]
            /\ UNCHANGED scheme
       ELSE /\ lookup' = [environment |-> environment, kind |-> "Account",
                          account |-> Account(environment, "", "")]
            /\ scheme' = [scheme EXCEPT !.environment_mapping =
                  [env \in DOMAIN @ \cup {environment} |->
                      IF env = environment
                      THEN Account(environment, "", "") ELSE @[env]]]
    /\ UNCHANGED <<raw_scheme, created>>
    /\ UNCHANGED notAccountVars

\* AccountScheme.account_for_environment: self._environment_mapping[environment],
\* a dict, or a defaultdict that stores the default under the missing key
account_for_environment(environment) ==
    /\ created = "AccountScheme"
    /\ IF environment \in DOMAIN scheme.environment_mapping
       THEN /\ lookup' = [environment |-> environment, kind |-> "Account",
                          account |->
                              scheme.environment_mapping[environment]]
            /\ UNCHANGED scheme
       ELSE IF scheme.default_factory # <<>>
       THEN /\ lookup' = [environment |-> environment, kind |-> "Account",
                          account |-> scheme.default_factory[1]]
            /\ scheme' = [scheme EXCEPT !.environment_mapping =
                  [env \in DOMAIN @ \cup {environment} |->
                      IF env = environment
                      THEN scheme.default_factory[1] ELSE @[env]]]
       ELSE /\ lookup' = [environment |-> environment, kind |-> "KeyError",
                          account |-> NoAccount]
            /\ UNCHANGED scheme
    /\ UNCHANGED <<raw_scheme, created>>
    /\ UNCHANGED notAccountVars

\* ------------------------------------------------------ BackendConfigWriter
\* terraform_state(...).init(): after `terraform init` against the backend
\* it runs `terraform workspace list`, reads the names from its output and
\* runs `terraform workspace new <environment>` or `terraform workspace
\* select <environment>`.  A non-zero exit of an external tool raises
\* CalledProcessError out of init.
DEFAULT_WORKSPACE == "default"
WorkspaceEnvironments == {"live", "test", DEFAULT_WORKSPACE}
WorkspaceNames == WorkspaceEnvironments

\* one line of the `workspace list` output: the marker column ("*" on the
\* selected workspace, blank on the others) and the name
ListLine(name, selected) ==
    <<(IF name = selected THEN "*" ELSE " "), name>>

\* the output of `terraform workspace list`: one line per workspace
WorkspaceListOutput(names, selected) ==
    {ListLine(name, selected) : name \in names}

\* the names read back from the output: the marker column is dropped
ParseWorkspaces(output) == {line[2] : line \in output}

TerraformInitCommand == <<"terraform", "init">>
WorkspaceListCommand == <<"terraform", "workspace", "list">>
WorkspaceCommand(verb, name) == <<"terraform", "workspace", verb, name>>

WorkspaceInit ==
    /\ workspaces \in {ws \in SUBSET WorkspaceNames : DEFAULT_WORKSPACE \in ws}
    /\ current = DEFAULT_WORKSPACE
    /\ wpc = "idle"
    /\ wenv = DEFAULT_WORKSPACE
    /\ listed = {}
    /\ commands = <<>>
    /\ wruns = 0

WorkspaceQuiet ==
    /\ workspaces = {DEFAULT_WORKSPACE}
    /\ current = DEFAULT_WORKSPACE
    /\ wpc = "idle"
    /\ wenv = DEFAULT_WORKSPACE
    /\ listed = {}
    /\ commands = <<>>
    /\ wruns = 0

\* terraform_state(..., environment_name, ...).init() is called
StartInit(environment_name) ==
    /\ wpc \in {"idle", "done", "raised"}
    /\ wruns < MaxInitRuns
    /\ wruns' = wruns + 1
    /\ wenv' = environment_name
    /\ wpc' = "init"
    /\ listed' = {}
    /\ commands' = <<>>
    /\ UNCHANGED <<workspaces, current, notWorkspaceVars>>

\* check_call(['terraform', 'init', ...]): a fresh working directory has
\* the default workspace selected
TerraformInit ==
    /\ wpc = "init"
    /\ commands' = Append(commands, TerraformInitCommand)
    /\ \E ok \in BOOLEAN :
          /\ wpc' = IF ok THEN "list" ELSE "raised"
          /\ current' = IF ok THEN DEFAULT_WORKSPACE ELSE current
    /\ UNCHANGED <<workspaces, wenv, listed, wruns, notWorkspaceVars>>

\* check_output(['terraform', 'workspace', 'list', ...])
WorkspaceList ==
    /\ wpc = "list"
    /\ commands' = Append(commands, WorkspaceListCommand)
    /\ \E ok \in BOOLEAN :
          IF ok
          THEN /\ listed' =
                    ParseWorkspaces(WorkspaceListOutput(workspaces, current))
               /\ wpc' = "workspace"
          ELSE /\ listed' = listed
               /\ wpc' = "raised"
    /\ UNCHANGED <<workspaces, current, wenv, wruns, notWorkspaceVars>>

\* the external tool runs `workspace new`: it fails on a workspace that exists
TerraformWorkspaceNew(name) ==
    IF name \in workspaces
    THEN /\ wpc' = "raised"
         /\ UNCHANGED <<workspaces, current>>
    ELSE /\ wpc' = "done"
         /\ workspaces' = workspaces \cup {name}
         /\ current' = name

\* the external tool runs `workspace select`: it fails on a missing workspace
TerraformWorkspaceSelect(name) ==
    IF name \in workspaces
    THEN /\ wpc' = "done"
         /\ current' = name
         /\ UNCHANGED workspaces
    ELSE /\ wpc' = "raised"
         /\ UNCHANGED <<workspaces, current>>

\* the writer creates the workspace whatever the listing said
NewOrSelectAlwaysNew ==
    /\ wpc = "workspace"
    /\ commands' = Append(commands, WorkspaceCommand("new", wenv))
    /\ TerraformWorkspaceNew(wenv)
    /\ UNCHANGED <<wenv, listed, wruns, notWorkspaceVars>>

\* check_call(['terraform', 'workspace', 'new' | 'select', environment, ...])
NewOrSelect ==
    /\ wpc = "workspace"
    /\ IF wenv \in listed
       THEN /\ commands' = Append(commands, WorkspaceCommand("select", wenv))
            /\ TerraformWorkspaceSelect(wenv)
       ELSE /\ commands' = Append(commands, WorkspaceCommand("new", wenv))
            /\ TerraformWorkspaceNew(wenv)
    /\ UNCHANGED <<wenv, listed, wruns, notWorkspaceVars>>

\* --------------------------------------------------------------- Deployment
\* Deployment.run of deploy.py up to the terraform output: `terraform get`,
\* terragrunt.run('plan', ...) and, when the --plan flag is False,
\* terragrunt.run('apply', ...).  An external tool that exits non-zero
\* raises out of run.
DeployVersions == {"1", "2"}
NotDeployed == "none"

Invocation(name, ok) == <<name, ok>>

\* how an external tool run by check_call or terragrunt.run ends: TRUE is
\* exit code 0, FALSE a non-zero exit, which raises out of the caller
ToolExits == BOOLEAN

DeployInit ==
    /\ plan = FALSE
    /\ dversion = "1"
    /\ dpc = "idle"
    /\ invocations = <<>>
    /\ infra \in DeployVersions \cup {NotDeployed}
    /\ druns = 0

DeployQuiet ==
    /\ plan = FALSE
    /\ dversion = "1"
    /\ dpc = "idle"
    /\ invocations = <<>>
    /\ infra = NotDeployed
    /\ druns = 0

\* Deployment(argv, environ).run(): docopt gives --plan as True or False
Run(arg_plan, arg_version) ==
    /\ dpc \in {"idle", "output", "raised"}
    /\ druns < MaxDeployRuns
    /\ druns' = druns + 1
    /\ plan' = arg_plan
    /\ dversion' = arg_version
    /\ invocations' = <<>>
    /\ dpc' = "get"
    /\ UNCHANGED <<infra, notDeployVars>>

\* check_call("terraform get infra", ...)
TerraformGet ==
    /\ dpc = "get"
    /\ \E ok \in ToolExits :
          /\ invocations' = Append(invocations, Invocation("get", ok))
          /\ dpc' = IF ok THEN "plan" ELSE "raised"
    /\ UNCHANGED <<plan, dversion, infra, druns, notDeployVars>>

\* the plan step goes on to apply whatever the --plan flag says
TerragruntRunPlanThenApply ==
    /\ dpc = "plan"
    /\ \E ok \in ToolExits :
          /\ invocations' = Append(invocations, Invocation("plan", ok))
          /\ dpc' = IF ~ok THEN "raised" ELSE "apply"
    /\ UNCHANGED <<plan, dversion, infra, druns, notDeployVars>>

\* terragrunt.run('plan', secrets, self.tfargs); if self.plan is False:
TerragruntRunPlan ==
    /\ dpc = "plan"
    /\ \E ok \in ToolExits :
          /\ invocations' = Append(invocations, Invocation("plan", ok))
          /\ dpc' = IF ~ok THEN "raised"
                    ELSE IF plan = FALSE THEN "apply"
                    ELSE "output"
    /\ UNCHANGED <<plan, dversion, infra, druns, notDeployVars>>

\* terragrunt.run('apply', secrets, self.tfargs)
TerragruntRunApply ==
    /\ dpc = "apply"
    /\ \E ok \in ToolExits :
          /\ invocations' = Append(invocations, Invocation("apply", ok))
          /\ dpc' = IF ok THEN "output" ELSE "raised"
          /\ infra' = IF ok THEN dversion ELSE infra
    /\ UNCHANGED <<plan, dversion, druns, notDeployVars>>

\* ------------------------------------------------------------------ Destroy
\* cdflow_commands/destroy.py: Destroy(boto_session).run(plan_only); check_call
\* raises CalledProcessError on a non-zero exit.
NoPlanPath == <<>>

\* 'plan-{}'.format(time())
FormatPlanPath(t) == <<"plan-", t>>

\* (a variant of plan_path that formats the path at every access)
PlanPathUncached(path, t) == FormatPlanPath(t)

\* Destroy.plan_path: formatted at the first access, kept in _plan_path
plan_path(path, t) == IF path = NoPlanPath THEN FormatPlanPath(t) ELSE path

DestroyCall(step, path, ok) == [step |-> step, path |-> path, ok |-> ok]

DestroyInit ==
    /\ plan_only = FALSE
    /\ _plan_path = NoPlanPath
    /\ xpc = "idle"
    /\ destroyCalls = <<>>
    /\ clock = 0
    /\ xruns = 0

DestroyQuiet == DestroyInit

\* Destroy(boto_session).run(plan_only)
DestroyRun(arg_plan_only) ==
    /\ xpc \in {"idle", "returned", "raised"}
    /\ xruns < MaxDestroyRuns
    /\ xruns' = xruns + 1
    /\ plan_only' = arg_plan_only
    /\ _plan_path' = NoPlanPath
    /\ destroyCalls' = <<>>
    /\ xpc' = "plan"
    /\ UNCHANGED <<clock, notDestroyVars>>

\* time passes
Tick ==
    /\ clock < MaxClock
    /\ clock' = clock + 1
    /\ UNCHANGED <<plan_only, _plan_path, xpc, destroyCalls, xruns,
                   notDestroyVars>>

\* Destroy._plan: terraform plan -destroy -out <plan_path>; then
\* `if not plan_only`
_plan ==
    /\ xpc = "plan"
    /\ _plan_path' = plan_path(_plan_path, clock)
    /\ \E ok \in ToolExits :
          /\ destroyCalls' =
                Append(destroyCalls, DestroyCall("plan", _plan_path', ok))
          /\ xpc' = IF ~ok THEN "raised"
                    ELSE IF ~plan_only THEN "destroy"
                    ELSE "returned"
    /\ UNCHANGED <<plan_only, clock, xruns, notDestroyVars>>

\* Destroy._destroy: terraform apply <plan_path>
_destroy ==
    /\ xpc = "destroy"
    /\ _plan_path' = plan_path(_plan_path, clock)
    /\ \E ok \in ToolExits :
          /\ destroyCalls' =
                Append(destroyCalls, DestroyCall("apply", _plan_path', ok))
          /\ xpc' = IF ok THEN "returned" ELSE "raised"
    /\ UNCHANGED <<plan_only, clock, xruns, notDestroyVars>>

\* ------------------------------------------------- the deploy monitoring loop
\* Deployment.run of deploy.py around its monitoring loop: the cleanup at its
\* start, the external tools that write into the working directory, the
\* terraform output, the poll cycles and the cleanup at its end.
DOT_TERRAFORM == ".terraform"
DOT_TERRAGRUNT == ".terragrunt"
WorkFiles == {DOT_TERRAFORM, DOT_TERRAGRUNT}

\* Python's None, and what str() makes of a value
PyNone == "<None>"
PyStr(value) == IF value = PyNone THEN "None" ELSE value

NEW_TASK_DEFINITION == "arn:aws:ecs:task-definition/svc:2"
OLD_TASK_DEFINITION == "arn:aws:ecs:task-definition/svc:1"
CLUSTER_NAME == "cluster"
SERVICE_ARN == "arn:aws:ecs:service/svc"

\* util.terraform_output_filter(key, output): the value of the output, or
\* None when the terraform output does not have the key
TerraformOutputs ==
    {[ecs_cluster_name |-> c, ecs_service_arn |-> SERVICE_ARN,
      ecs_service_task_definition_arn |-> a] :
        c \in {CLUSTER_NAME, PyNone}, a \in {NEW_TASK_DEFINITION, PyNone}}

\* parse_terraform_output: each of the three values goes through str()
parse_terraform_output(output) ==
    <<PyStr(output.ecs_cluster_name), PyStr(output.ecs_service_arn),
      PyStr(output.ecs_service_task_definition_arn)>>

\* monitor_deploy: False if any of the three parameters is None
monitor_deploy(par1, par2, par3) ==
    ~(par1 = PyNone \/ par2 = PyNone \/ par3 = PyNone)

\* cleanup: shutil.rmtree(".terraform") and then os.remove(".terragrunt")
\* inside one try whose bare except passes: a missing .terraform raises out
\* of rmtree and os.remove is not reached
cleanup(fs) ==
    IF DOT_TERRAFORM \in fs THEN fs \ {DOT_TERRAFORM, DOT_TERRAGRUNT}
    ELSE fs

\* describe_services: the deployments of the service and its desiredCount
MonitorServices ==
    {[deployments |-> d, desiredCount |-> MaxCount] :
        d \in {<<Deployment("PRIMARY", OLD_TASK_DEFINITION,
                            MaxCount, MaxCount)>>,
               <<Deployment("PRIMARY", NEW_TASK_DEFINITION, 0, MaxCount),
                 Deployment("ACTIVE", OLD_TASK_DEFINITION,
                            MaxCount, MaxCount)>>,
               <<Deployment("PRIMARY", NEW_TASK_DEFINITION,
                            MaxCount, MaxCount),
                 Deployment("ACTIVE", OLD_TASK_DEFINITION,
                            MaxCount, MaxCount)>>,
               <<Deployment("PRIMARY", NEW_TASK_DEFINITION,
                            MaxCount, MaxCount)>>}}

\* describe_tasks: the tasks of the service, all on one container instance,
\* each on a host port of its own
INSTANCE_ARN == "arn:aws:ecs:container-instance/1"
INSTANCE_ID == "i-1"
OTHER_INSTANCE_ID == "i-2"
NEW_PORT == "32769"
OLD_PORT == "32768"
OTHER_PORT == "32770"

Task(port, arn) ==
    [containerInstanceArn |-> INSTANCE_ARN, hostPort |-> port,
     taskDefinitionArn |-> arn]

MonitorTasks ==
    {<<Task(OLD_PORT, OLD_TASK_DEFINITION)>>,
     <<Task(OLD_PORT, OLD_TASK_DEFINITION),
       Task(NEW_PORT, NEW_TASK_DEFINITION)>>,
     <<Task(NEW_PORT, NEW_TASK_DEFINITION)>>}

\* describe_container_instances for the container instances of the tasks
ContainerInstances(tasks) ==
    {[containerInstanceArn |-> tasks[i].containerInstanceArn,
      ec2InstanceId |-> INSTANCE_ID] : i \in 1..Len(tasks)}

\* describe_target_health: the targets of the service's target group
Target(id, port, state) == [Id |-> id, Port |-> port, State |-> state]

MonitorTargets ==
    {<<>>,
     <<Target(INSTANCE_ID, OLD_PORT, "healthy")>>,
     <<Target(INSTANCE_ID, NEW_PORT, "initial")>>,
     <<Target(INSTANCE_ID, NEW_PORT, "healthy")>>,
     <<Target(INSTANCE_ID, OLD_PORT, "draining"),
       Target(INSTANCE_ID, NEW_PORT, "healthy")>>,
     <<Target(INSTANCE_ID, OTHER_PORT, "healthy"),
       Target(INSTANCE_ID, NEW_PORT, "healthy")>>,
     <<Target(OTHER_INSTANCE_ID, NEW_PORT, "healthy")>>}

\* get_service_update_progress: some deployment has the new task definition
\* and the status PRIMARY
get_service_update_progress(arn, services) ==
    \E i \in 1..Len(services.deployments) :
        /\ services.deployments[i].taskDefinition = arn
        /\ services.deployments[i].status = "PRIMARY"

\* get_deployment(deployments, status, 'runningCount'): the running count
\* of the first deployment with the status, None when there is none (the
\* count is kept as a singleton, None as the empty set)
get_deployment(deployments, status) ==
    LET having == {i \in 1..Len(deployments) :
                      deployments[i].status = status}
    IN IF having = {} THEN {}
       ELSE {deployments[CHOOSE i \in having :
                             \A j \in having : i <= j].runningCount}

\* get_ecs_deploy_status: one deployment only, or the PRIMARY deployment
\* runs desiredCount tasks
get_ecs_deploy_status(services, arn) ==
    \/ Len(services.deployments) = 1
    \/ get_deployment(services.deployments, "PRIMARY")
           = {services.desiredCount}

\* get_ecs_instance_metadata: the container instance whose ec2InstanceId is
\* the target's Id; [...][0] of an empty list raises IndexError
get_ecs_instance_metadata(target, container_instances) ==
    LET found == {c \in container_instances : c.ec2InstanceId = target.Id}
    IN IF found = {} THEN "IndexError"
       ELSE (CHOOSE c \in found : TRUE).containerInstanceArn

\* get_task_arn: the task definition of the last task on the container
\* instance and host port; len(None) raises TypeError when there is none
get_task_arn(container_instance, port, tasks) ==
    LET hit == {i \in 1..Len(tasks) :
                   /\ tasks[i].containerInstanceArn = container_instance
                   /\ tasks[i].hostPort = port}
    IN IF hit = {} THEN "TypeError"
       ELSE tasks[CHOOSE i \in hit : \A j \in hit : j <= i].taskDefinitionArn

\* what a target resolves to: a task definition ARN or the error raised
TargetTask(target, tasks) ==
    LET instance ==
            get_ecs_instance_metadata(target, ContainerInstances(tasks))
    IN IF instance = "IndexError" THEN "IndexError"
       ELSE get_task_arn(instance, target.Port, tasks)

ElbErrors == {"IndexError", "TypeError", "KeyError"}
ElbResult(error, healthy) == [error |-> error, healthy |-> healthy]

\* get_elbv2_deploy_progress: elbv2_health[task_def_arn]['healthy'], the
\* number of healthy targets of the tasks of the new task definition; the
\* first target that cannot be resolved raises, and so does the lookup when
\* no target belongs to the new task definition
get_elbv2_deploy_progress(task_def_arn, tasks, targets) ==
    LET unresolved == {i \in 1..Len(targets) :
                          TargetTask(targets[i], tasks) \in ElbErrors}
        ofNew == {i \in 1..Len(targets) :
                     TargetTask(targets[i], tasks) = task_def_arn}
    IN IF unresolved # {}
       THEN ElbResult(TargetTask(targets[CHOOSE i \in unresolved :
                          \A j \in unresolved : i <= j], tasks), 0)
       ELSE IF ofNew = {} THEN ElbResult("KeyError", 0)
       ELSE ElbResult("none",
                Cardinality({i \in ofNew : targets[i].State = "healthy"}))

\* (a variant with a lower threshold)
SuccessCountReachedEarly(count) == count > 3

\* if deploy_success_count > 4:
SuccessCountReached(count) == count > 4

NoPoll == [examined |-> FALSE, partial |-> FALSE, error |-> "none"]

\* the ELB data of a cycle is partial: no target maps to a task of the new
\* task definition, or some target maps to no known task
PartialElbData(task_def_arn, tasks, targets) ==
    \/ \A i \in 1..Len(targets) :
           TargetTask(targets[i], tasks) # task_def_arn
    \/ \E i \in 1..Len(targets) : TargetTask(targets[i], tasks) \in ElbErrors

MonitorInit ==
    /\ rpc = "idle"
    /\ ecs_service_update_finished = FALSE
    /\ ecs_deploy_finished = FALSE
    /\ elbv2_deploy_finished = FALSE
    /\ deploy_finished = FALSE
    /\ deploy_success_count = 0
    /\ cycles = 0
    /\ equalCycles = 0
    /\ lastPoll = NoPoll
    /\ files = {}
    /\ rruns = 0

MonitorQuiet == MonitorInit

\* Deployment.run: self.cleanup() before anything else
RunCleanup ==
    /\ rpc \in {"idle", "finished", "raised"}
    /\ rruns < MaxMonitorRuns
    /\ rruns' = rruns + 1
    /\ files' = cleanup(files)
    /\ rpc' = "tools"
    /\ UNCHANGED <<ecs_service_update_finished, ecs_deploy_finished,
                   elbv2_deploy_finished, deploy_finished,
                   deploy_success_count, cycles, equalCycles, lastPoll,
                   notMonitorVars>>

\* the finish of the run: the loop is over (or was never entered), cleanup
FinishIf(finished, fs) == IF finished THEN cleanup(fs) ELSE fs

\* from util.Terragrunt(...) to the flags set to their start state: the
\* tools leave .terraform and .terragrunt behind, or fail before they do;
\* the terraform output is parsed and monitor_deploy decides on the loop
RunTools ==
    /\ rpc = "tools"
    /\ \E written \in SUBSET WorkFiles, ok \in ToolExits,
          output \in TerraformOutputs :
          LET parsed == parse_terraform_output(output)
              monitoring == monitor_deploy(parsed[1], parsed[2], parsed[3])
          IN /\ rpc' = IF ~ok THEN "raised"
                       ELSE IF monitoring THEN "loop" ELSE "finished"
             /\ files' = FinishIf(ok /\ ~monitoring, files \cup written)
    /\ ecs_service_update_finished' = FALSE
    /\ ecs_deploy_finished' = FALSE
    /\ elbv2_deploy_finished' = FALSE
    /\ deploy_finished' = FALSE
    /\ deploy_success_count' = 0
    /\ cycles' = 0
    /\ equalCycles' = 0
    /\ lastPoll' = NoPoll
    /\ UNCHANGED <<rruns, notMonitorVars>>

\* one pass through the body of the while loop, with the test of the loop
\* that follows it and, when the loop is over, the cleanup after it
PollCycle ==
    /\ rpc = "loop"
    /\ cycles < MaxCycles
    /\ cycles' = cycles + 1
    /\ \E services \in MonitorServices, tasks \in MonitorTasks,
          targets \in MonitorTargets :
          LET arn == NEW_TASK_DEFINITION
              update == \/ ecs_service_update_finished
                        \/ get_service_update_progress(arn, services)
              ecs == \/ ecs_deploy_finished
                     \/ get_ecs_deploy_status(services, arn)
              examined == update /\ ~elbv2_deploy_finished
              elb_st == get_elbv2_deploy_progress(arn, tasks, targets)
              raised == examined /\ elb_st.error # "none"
              equal == /\ examined
                       /\ ~raised
                       /\ elb_st.healthy = services.desiredCount
              count == IF equal THEN deploy_success_count + 1
                       ELSE deploy_success_count
              elb == \/ elbv2_deploy_finished
                     \/ examined /\ SuccessCountReached(count)
              finished == update /\ ecs /\ elb
          IN /\ lastPoll' =
                    [examined |-> examined,
                     partial |-> PartialElbData(arn, tasks, targets),
                     error |-> IF raised THEN elb_st.error ELSE "none"]
             /\ ecs_service_update_finished' = update
             /\ ecs_deploy_finished' = ecs
             /\ IF raised
                THEN /\ rpc' = "raised"
                     /\ UNCHANGED <<elbv2_deploy_finished, deploy_finished,
                                    deploy_success_count, equalCycles,
                                    files>>
                ELSE /\ deploy_success_count' = count
                     /\ equalCycles' =
                            IF equal THEN equalCycles + 1 ELSE equalCycles
                     /\ elbv2_deploy_finished' = elb
                     /\ deploy_finished' = finished
                     /\ rpc' = IF finished THEN "finished" ELSE "loop"
                     /\ files' = FinishIf(finished, files)
    /\ UNCHANGED <<rruns, notMonitorVars>>

\* ---------------------------------------------------------- specifications
\* one process invoking get_bucket_name up to MaxRuns times in succession
Init ==
    BucketInit(MAX_CREATION_ATTEMPTS) /\ TableQuiet /\ MigrateQuiet
        /\ EcsQuiet /\ ServiceNameQuiet /\ AccountQuiet /\ WorkspaceQuiet
        /\ DeployQuiet
        /\ DestroyQuiet /\ MonitorQuiet
Next == ListBuckets(1, MaxRuns) \/ BucketStep(1)
Spec == Init /\ [][Next]_vars

\* concurrent runs of get_bucket_name, all in one region
RaceInit ==
    BucketInit(RaceTaken) /\ TableQuiet /\ MigrateQuiet /\ EcsQuiet
        /\ ServiceNameQuiet /\ AccountQuiet /\ WorkspaceQuiet /\ DeployQuiet
        /\ DestroyQuiet /\ MonitorQuiet
RaceNext == \E p \in Procs : ListBuckets(p, RaceRuns) \/ BucketStep(p)
RaceSpec == RaceInit /\ [][RaceNext]_vars

\* one run of get_bucket_name while buckets of the account are deleted
DeleteInit ==
    BucketInit(0) /\ TableQuiet /\ MigrateQuiet /\ EcsQuiet
        /\ ServiceNameQuiet /\ AccountQuiet /\ WorkspaceQuiet /\ DeployQuiet
        /\ DestroyQuiet /\ MonitorQuiet
DeleteNext ==
    \/ ListBuckets(1, 1)
    \/ BucketStep(1)
    \/ \E n \in LegacyNames : DeleteBucket(n)
DeleteSpec == DeleteInit /\ [][DeleteNext]_vars

\* a run of get_table_name that may be stopped inside _create_table, and
\* then a run of a second process
TableStopInit ==
    TableInit /\ BucketQuiet /\ MigrateQuiet /\ EcsQuiet /\ ServiceNameQuiet
        /\ AccountQuiet /\ WorkspaceQuiet /\ DeployQuiet
        /\ DestroyQuiet /\ MonitorQuiet
TableStopNext ==
    \/ TableStep(1)
    \/ StopTable(1)
    \/ tpc[1] \in {"done", "failed", "stopped"} /\ TableStep(2)
    \/ TableBecomesActive
TableStopSpec == TableStopInit /\ [][TableStopNext]_vars

\* concurrent runs of get_table_name against one account
TableSpecInit ==
    TableInit /\ BucketQuiet /\ MigrateQuiet /\ EcsQuiet /\ ServiceNameQuiet
        /\ AccountQuiet /\ WorkspaceQuiet /\ DeployQuiet
        /\ DestroyQuiet /\ MonitorQuiet
TableNext == TableBecomesActive \/ \E p \in Procs : TableStep(p)
TableSpec == TableSpecInit /\ [][TableNext]_vars

\* one process invoking migrate_state up to MigrateRuns times in succession,
\* a run possibly being stopped half-way
MigrateSpecInit ==
    MigrateInit /\ BucketQuiet /\ TableQuiet /\ EcsQuiet /\ ServiceNameQuiet
        /\ AccountQuiet /\ WorkspaceQuiet /\ DeployQuiet
        /\ DestroyQuiet /\ MonitorQuiet
MigrateNext ==
    \/ StartMigrate(1, MigrateRuns)
    \/ MigrateStep(1)
    \/ StopMigrate(1)
MigrateSpec == MigrateSpecInit /\ [][MigrateNext]_vars

\* concurrent runs of migrate_state for one team and component, one run per
\* process, and terraform working on the environments that are migrated
MigrateRaceNext ==
    \/ \E p \in Procs : StartMigrate(p, 1) \/ MigrateStep(p)
    \/ \E e \in EnvSet : TerraformWritesState(e)
MigrateRaceSpec == MigrateSpecInit /\ [][MigrateRaceNext]_vars

\* one ECSEventIterator, polled up to MaxPolls times
EcsSpecInit ==
    EcsInit /\ BucketQuiet /\ TableQuiet /\ MigrateQuiet /\ ServiceNameQuiet
        /\ AccountQuiet /\ WorkspaceQuiet /\ DeployQuiet
        /\ DestroyQuiet /\ MonitorQuiet
EcsNext == __next__
EcsSpec == EcsSpecInit /\ [][EcsNext]_vars

\* a for loop over the iterator that runs for as long as next() yields events
EcsLoopNext == Iterate
EcsLoopSpec == EcsSpecInit /\ [][EcsLoopNext]_vars /\ WF_vars(Iterate)

\* successive calls of build_service_name
ServiceNameSpecInit ==
    ServiceNameInit /\ BucketQuiet /\ TableQuiet /\ MigrateQuiet /\ EcsQuiet
        /\ AccountQuiet /\ WorkspaceQuiet /\ DeployQuiet
        /\ DestroyQuiet /\ MonitorQuiet
ServiceNameNext == BuildServiceName
ServiceNameSpec == ServiceNameSpecInit /\ [][ServiceNameNext]_vars

\* AccountScheme.create on any raw scheme, then any lookups
AccountSpecInit ==
    AccountInit /\ BucketQuiet /\ TableQuiet /\ MigrateQuiet /\ EcsQuiet
        /\ ServiceNameQuiet /\ WorkspaceQuiet /\ DeployQuiet
        /\ DestroyQuiet /\ MonitorQuiet
AccountNext ==
    \/ Create
    \/ \E environment \in LookupEnvironments :
          account_for_environment(environment)
AccountSpec == AccountSpecInit /\ [][AccountNext]_vars

WorkspaceSpecInit ==
    WorkspaceInit /\ BucketQuiet /\ TableQuiet /\ MigrateQuiet /\ EcsQuiet
        /\ ServiceNameQuiet /\ AccountQuiet /\ DeployQuiet
        /\ DestroyQuiet /\ MonitorQuiet
WorkspaceNext ==
    \/ \E environment_name \in WorkspaceEnvironments :
          StartInit(environment_name)
    \/ TerraformInit
    \/ WorkspaceList
    \/ NewOrSelect
WorkspaceSpec == WorkspaceSpecInit /\ [][WorkspaceNext]_vars

DeploySpecInit ==
    DeployInit /\ BucketQuiet /\ TableQuiet /\ MigrateQuiet /\ EcsQuiet
        /\ ServiceNameQuiet /\ AccountQuiet /\ WorkspaceQuiet /\ DestroyQuiet
        /\ MonitorQuiet
DeployNext ==
    \/ \E arg_plan \in BOOLEAN, arg_version \in DeployVersions :
          Run(arg_plan, arg_version)
    \/ TerraformGet
    \/ TerragruntRunPlan
    \/ TerragruntRunApply
DeploySpec == DeploySpecInit /\ [][DeployNext]_vars

DestroySpecInit ==
    DestroyInit /\ BucketQuiet /\ TableQuiet /\ MigrateQuiet /\ EcsQuiet
        /\ ServiceNameQuiet /\ AccountQuiet /\ WorkspaceQuiet /\ DeployQuiet
        /\ MonitorQuiet
DestroyNext ==
    \/ \E arg_plan_only \in BOOLEAN : DestroyRun(arg_plan_only)
    \/ Tick
    \/ _plan
    \/ _destroy
DestroySpec == DestroySpecInit /\ [][DestroyNext]_vars

\* runs of Deployment.run seen from its working directory and its poll cycles
MonitorSpecInit ==
    MonitorInit /\ BucketQuiet /\ TableQuiet /\ MigrateQuiet /\ EcsQuiet
        /\ ServiceNameQuiet /\ AccountQuiet /\ WorkspaceQuiet /\ DeployQuiet
        /\ DestroyQuiet
MonitorNext == RunCleanup \/ RunTools \/ PollCycle
MonitorSpec == MonitorSpecInit /\ [][MonitorNext]_vars

\* ------------------------------------------------- properties: the bucket
\* the region a bucket resides in: S3 reports the default region as None
BucketRegion(b) == IF b.loc = NoneLocation THEN "us-east-1" ELSE b.loc

HasSentinelTag(b) == b.tags = SentinelTagSet

\* the account's buckets of region r that carry the sentinel tag
StateBuckets(ns, r) ==
    {n \in Names : ns[n].owner = "self" /\ HasSentinelTag(ns[n])
                     /\ BucketRegion(ns[n]) = r}

Finished(p) == pc[p] \in {"done", "failed"}
OkCalls(p) == {i \in 1..Len(createCalls[p]) : createCalls[p][i].answer = "ok"}

\* C1: a run that follows a run which returned a name returns the same name,
\* and issues no create_bucket and no put_bucket_tagging call.
C1_Idempotent ==
    \A p \in Procs :
        (prev[p].pc = "done" /\ Finished(p)) =>
            /\ pc[p] = "done"
            /\ result[p] = prev[p].result
            /\ createCalls[p] = <<>>
            /\ tagCalls[p] = <<>>

\* the second run found the bucket that the first run had to create
C1_Witness ==
    /\ prev[1].pc = "done"
    /\ pc[1] = "done"
    /\ result[1] \in GeneratedNames
    /\ ~Exists(s3Init[result[1]])

\* C2: when no tagged bucket of the region exists before the first run and no
\* API call is answered by an error other than "already exists", concurrent
\* runs all return, and all return the same name.
C2_RaceConverges ==
    (/\ \A p \in Procs : Finished(p)
     /\ \A p \in Procs : StateBuckets(s3Init, region[p]) = {}
     /\ \A p \in Procs : result[p] # <<"ClientError">>)
    => \A p, q \in Procs : pc[p] = "done" /\ result[p] = result[q]

\* C3: when every region holds at most one sentinel-tagged bucket of the
\* account before the first run, it does so in every reachable state.
C3_AtMostOneStateBucket ==
    (\A r \in Regions : Cardinality(StateBuckets(s3Init, r)) <= 1)
    => \A r \in Regions : Cardinality(StateBuckets(s3, r)) <= 1

\* C4: a run that returns, started when no sentinel-tagged bucket of the
\* caller's region existed, has created exactly one bucket, in the caller's
\* region, has tagged it with the sentinel tag and returns its name.
C4_CreatesExactlyOne ==
    \A p \in Procs :
        (pc[p] = "done" /\ StateBuckets(s3AtStart[p], region[p]) = {}) =>
            /\ Cardinality(OkCalls(p)) = 1
            /\ \A i \in OkCalls(p) : createCalls[p][i].name = result[p]
            /\ ~Exists(s3AtStart[p][result[p]])
            /\ {n \in Names : Exists(s3[n])} =
                   {n \in Names : Exists(s3AtStart[p][n])} \cup {result[p]}
            /\ s3[result[p]].owner = "self"
            /\ s3[result[p]].loc = region[p]
            /\ BucketRegion(s3[result[p]]) = region[p]
            /\ s3[result[p]].tags = SentinelTagSet
            /\ tagCalls[p] = <<result[p]>>

\* a bucket was created although a tagged bucket of another region existed
C4_Witness ==
    /\ pc[1] = "done"
    /\ StateBuckets(s3AtStart[1], region[1]) = {}
    /\ \E r \in Regions : StateBuckets(s3AtStart[1], r) # {}
    /\ tagCalls[1] = <<result[1]>>

\* C5: a run started when two or more sentinel-tagged buckets of the caller's
\* region exist ends with MultipleBucketsError, returns none of them and
\* issues no create_bucket and no put_bucket_tagging call.
C5_MultipleBucketsError ==
    \A p \in Procs :
        (runs[p] > 0 /\ Cardinality(StateBuckets(s3AtStart[p], region[p])) >= 2)
        => /\ pc[p] # "done"
           /\ createCalls[p] = <<>>
           /\ tagCalls[p] = <<>>
           /\ pc[p] = "failed" => result[p] = <<"MultipleBucketsError">>

\* C6: a run that returns after create_bucket calls has issued them for the
\* names of attempts 0, 1, 2, ... in this order, all but the last answered
\* "already exists" and the last one successful; it returns the name of the
\* last attempt, which differs from every rejected name, and has tagged this
\* name and no other.
C6_FirstFreeCandidate ==
    \A p \in Procs :
        (pc[p] = "done" /\ createCalls[p] # <<>>) =>
            LET c == createCalls[p]
                k == Len(c) - 1
            IN /\ k < 10
               /\ \A i \in 1..Len(c) :
                     c[i].name = <<NAME_PREFIX, region[p], ACCOUNT_ID,
                                   ToString(i - 1)>>
               /\ \A i \in 1..k : IsAlreadyExists(c[i].answer)
               /\ c[k + 1].answer = "ok"
               /\ result[p] = c[k + 1].name
               /\ \A i \in 1..k : c[i].name # result[p]
               /\ tagCalls[p] = <<result[p]>>

\* the tenth candidate was the first free one, after rejections of both kinds
C6_Witness ==
    /\ pc[1] = "done"
    /\ Len(createCalls[1]) = 10
    /\ \E i \in 1..9 : createCalls[1][i].answer = "BucketAlreadyExists"
    /\ \E i \in 1..9 : createCalls[1][i].answer = "BucketAlreadyOwnedByYou"

\* C7: a run issues at most 10 create_bucket calls; after 10 "already exists"
\* answers it has failed fatally and tagged nothing; an answer that is neither
\* success nor "already exists" is the last call of the run, which has failed
\* with that error and tagged nothing.
C7_BoundedAttempts ==
    \A p \in Procs :
        LET c == createCalls[p]
        IN /\ Len(c) <= 10
           /\ (Len(c) = 10 /\ \A i \in 1..10 : IsAlreadyExists(c[i].answer))
              => /\ pc[p] = "failed"
                 /\ result[p] = <<"Exception">>
                 /\ tagCalls[p] = <<>>
           /\ \A i \in 1..Len(c) :
                 (c[i].answer # "ok" /\ ~IsAlreadyExists(c[i].answer))
                 => /\ i = Len(c)
                    /\ pc[p] = "failed"
                    /\ result[p] = <<"ClientError">>
                    /\ tagCalls[p] = <<>>

\* all ten candidates were rejected
C7_Witness ==
    /\ Len(createCalls[1]) = 10
    /\ \A i \in 1..10 : IsAlreadyExists(createCalls[1][i].answer)
    /\ pc[1] = "failed"

\* -------------------------------------------------- properties: the table
TFinished(p) == tpc[p] \in {"done", "failed"}
NotFoundFirst(p) ==
    /\ tcalls[p] # <<>>
    /\ tcalls[p][1].answer = "ResourceNotFoundException"
FoundFirst(p) == tcalls[p] # <<>> /\ tcalls[p][1].answer = "ok"

\* C8: after describe_table answered "resource not found" the run issues, in
\* this order and nothing else, create_table (hash key LockID of type S, 1
\* read and 1 write unit), tag_resource with cdflow_terraform_locks=true and
\* the wait for the table; it returns only after the wait, the table being
\* active, and then returns terraform_locks.
C8_CreateTagWaitReturn ==
    \A p \in Procs :
        NotFoundFirst(p) =>
            LET c == tcalls[p]
            IN /\ Len(c) <= 4
               /\ Len(c) >= 2 =>
                     /\ c[2].op = "create_table"
                     /\ c[2].args.TableName = "terraform_locks"
                     /\ c[2].args.AttributeDefinitions = {<<"LockID", "S">>}
                     /\ c[2].args.KeySchema = {<<"LockID", "HASH">>}
                     /\ c[2].args.ReadCapacityUnits = 1
                     /\ c[2].args.WriteCapacityUnits = 1
               /\ Len(c) >= 3 =>
                     /\ c[2].answer = "ok"
                     /\ c[3].op = "tag_resource"
                     /\ c[3].args.Tags = {<<"cdflow_terraform_locks", "true">>}
               /\ Len(c) >= 4 => c[4].op = "wait" /\ c[4].answer = "ACTIVE"
               /\ tpc[p] = "done" =>
                     /\ Len(c) = 4
                     /\ tresult[p] = "terraform_locks"
                     /\ table.status = "ACTIVE"
                     /\ <<"cdflow_terraform_locks", "true">> \in table.tags

\* a run returned after it had found no table
C8_Witness == \E p \in Procs : NotFoundFirst(p) /\ tpc[p] = "done"

C10_MissingTagNotRepaired ==
    \A p \in Procs :
        FoundFirst(p) =>
            /\ \A i \in 1..Len(tcalls[p]) :
                  tcalls[p][i].op \notin {"create_table", "tag_resource"}
            /\ (TFinished(p)
                  /\ <<"cdflow_terraform_locks", "true">> \notin table.tags)
               => /\ tpc[p] = "failed"
                  /\ tresult[p] = "MissingTagError"

\* an untagged table with the right schema was refused, and is still untagged
C10_Witness ==
    \E p \in Procs :
        /\ tpc[p] = "failed"
        /\ tresult[p] = "MissingTagError"
        /\ <<"LockID", "S">> \in described[p].attrs
        /\ table.tags = {}
        /\ table.status = "ACTIVE"

\* C11: when describe_table fails with an error other than "resource not
\* found", get_table_name ends with that very error, and describe_table is the
\* only call of the run: no create_table, tag_resource or wait is issued.
C11_OtherErrorPropagates ==
    \A p \in Procs :
        (tcalls[p] # <<>>
            /\ tcalls[p][1].answer
                   \notin {"ok", "ResourceNotFoundException"})
        => /\ tpc[p] = "failed"
           /\ tresult[p] = tcalls[p][1].answer
           /\ Len(tcalls[p]) = 1
           /\ tcalls[p][1].op = "describe_table"

\* describe_table was refused for want of permission, and the run ended
C11_Witness ==
    \E p \in Procs :
        /\ tcalls[p] # <<>>
        /\ tcalls[p][1].answer = "AccessDeniedException"
        /\ TFinished(p)

\* C12 as claimed: when terraform_locks does not exist before two concurrent
\* runs of get_table_name and no call is refused for another reason, both
\* runs end returning terraform_locks.
C12_TableRaceConverges ==
    (/\ tableInit.status = "absent"
     /\ \A p \in Procs : TFinished(p)
     /\ \A p \in Procs : tcalls[p][1].answer \notin OtherErrorCodes)
    => \A p \in Procs : tpc[p] = "done" /\ tresult[p] = "terraform_locks"

\* ---------------------------------------------- properties: migrate_state
\* the objects of an environment, by the key layout of the two buckets
LegacyOf(e) == oldBucket[<<e, "svc", "terraform.tfstate">>]
DestinationOf(e) == newBucket[<<"platform", "svc", e, "terraform.tfstate">>]
MarkerOf(e) == newBucket[<<"platform", "svc", e, "MIGRATED">>]
DestinationPuts(e) == mputs[<<"platform", "svc", e, "terraform.tfstate">>]
MarkerPuts(e) == mputs[<<"platform", "svc", e, "MIGRATED">>]
MarkedAtFirst(e) == newInit[<<"platform", "svc", e, "MIGRATED">>].body # <<>>

\* C13: in successive runs of migrate_state, no step taken while the marker
\* of an environment exists changes the destination object or the marker of
\* that environment; the marker is put at most once, the destination at most
\* once unless a run was stopped between the copy and the marker, and a run
\* that returns has put exactly one marker for every environment that had a
\* legacy state and no marker before the first run.
C13_MigrationIdempotent ==
    /\ [][\A e \in EnvSet :
             MarkerOf(e).body # <<>> =>
                 /\ DestinationOf(e)' = DestinationOf(e)
                 /\ MarkerOf(e)' = MarkerOf(e)]_vars
    /\ [](\A e \in EnvSet :
             /\ MarkerPuts(e) <= 1
             /\ e \notin interrupted => DestinationPuts(e) <= 1
             /\ MarkedAtFirst(e) => DestinationPuts(e) + MarkerPuts(e) = 0
             /\ (mpc[1] = "done" /\ LegacyOf(e) # <<>> /\ ~MarkedAtFirst(e))
                 => MarkerPuts(e) = 1)

\* a second run has returned, the first having migrated an environment
C13_Witness ==
    /\ mruns[1] = 2
    /\ mpc[1] = "done"
    /\ interrupted = {}
    /\ \E e \in EnvSet : MarkerPuts(e) = 1 /\ DestinationPuts(e) = 1
    /\ \E e \in EnvSet : MarkedAtFirst(e)

\* C14: when migrate_state has returned, every environment that had a legacy
\* state and no marker has, in the new bucket, the state object with the
\* bytes of the legacy object and the marker with body "1"; the objects of
\* every other environment are as they were.
C14_StateCopiedToOwnKey ==
    mpc[1] = "done" =>
        \A e \in EnvSet :
            IF LegacyOf(e) # <<>> /\ ~MarkedAtFirst(e)
            THEN /\ DestinationOf(e).body = <<e, "state">>
                 /\ DestinationOf(e).body = LegacyOf(e)
                 /\ MarkerOf(e).body = <<"1">>
            ELSE /\ DestinationOf(e) =
                       newInit[<<"platform", "svc", e, "terraform.tfstate">>]
                 /\ MarkerOf(e) = newInit[<<"platform", "svc", e, "MIGRATED">>]

\* one run has migrated every environment of the scheme
C14_Witness ==
    /\ mpc[1] = "done"
    /\ mruns[1] = 1
    /\ \A e \in EnvSet : LegacyOf(e) # <<>> /\ MarkerPuts(e) = 1

\* C15: whenever the marker of an environment exists, wherever the runs were
\* stopped, the destination state object of that environment exists and
\* holds the bytes of the legacy object.
C15_MarkerImpliesCopy ==
    \A e \in EnvSet :
        MarkerOf(e).body # <<>> =>
            /\ DestinationOf(e).body # <<>>
            /\ DestinationOf(e).body = LegacyOf(e)

\* a run was stopped between the copy and the marker, a later run put the
\* marker
C15_Witness ==
    \E e \in EnvSet :
        /\ e \in interrupted
        /\ MarkerOf(e).body = <<"1">>
        /\ MarkerPuts(e) = 1

\* C16: for an environment without a legacy state object migrate_state puts
\* neither the destination state object nor the marker; the step that finds
\* the legacy object absent moves on to the next environment, or returns
\* after the last one; the run that returns has migrated every environment
\* that has a legacy state.
C16_UndeployedSkipped ==
    /\ [](\A e \in EnvSet :
             LegacyOf(e) = <<>> =>
                 /\ DestinationOf(e).body = <<>>
                 /\ MarkerOf(e).body = <<>>
                 /\ DestinationPuts(e) + MarkerPuts(e) = 0)
    /\ [][(mpc[1] = "read" /\ LegacyOf(Environments[menv[1]]) = <<>>
              /\ mpc'[1] # "stopped")
          => /\ newBucket' = newBucket
             /\ IF menv[1] < NEnvs
                THEN mpc'[1] = "marker" /\ menv'[1] = menv[1] + 1
                ELSE mpc'[1] = "done"]_vars
    /\ [](mpc[1] = "done" =>
             \A e \in EnvSet :
                 LegacyOf(e) # <<>> =>
                     /\ MarkerOf(e).body = <<"1">>
                     /\ DestinationOf(e).body = LegacyOf(e))

\* a run skipped an environment without legacy state and migrated a later one
C16_Witness ==
    /\ mpc[1] = "done"
    /\ mruns[1] = 1
    /\ \E i \in 1..NEnvs : \E j \in 1..NEnvs :
          /\ i < j
          /\ LegacyOf(Environments[i]) = <<>>
          /\ MarkerPuts(Environments[j]) = 1
          /\ DestinationOf(Environments[j]).body = LegacyOf(Environments[j])

\* C17 as claimed: under concurrent runs of migrate_state, once the marker of
\* an environment exists no step of migrate_state puts the destination state
\* object or the marker of that environment, and a state terraform stored at
\* the destination after the migration is not replaced.
C17_NoWriteAfterMarker ==
    [][\A e \in EnvSet :
          /\ MarkerOf(e).body # <<>> =>
                /\ DestinationPuts(e)' = DestinationPuts(e)
                /\ MarkerPuts(e)' = MarkerPuts(e)
          /\ DestinationOf(e).body = <<e, "state", "applied">> =>
                DestinationOf(e)'.body = <<e, "state", "applied">>]_vars

\* ------------------------------------------- properties: ECSEventIterator
\* the last next() call polled ECS, and response is what it was answered
Polled == polls > 0 /\ response # <<>> /\ event.kind # "StopIteration"

\* the deployments of the answer whose status is PRIMARY
PrimaryOf(deployments) ==
    {deployments[i] : i \in {j \in 1..Len(deployments) :
                                 deployments[j].status = "PRIMARY"}}

\* the image of the task definition of a deployment, registry left out
ReleaseImageOf(d) ==
    IF Len(taskDefs[d.taskDefinition]) >= 2
    THEN taskDefs[d.taskDefinition][2] ELSE <<>>

\* C18: the next() calls on one iterator return at most one DoneEvent, and
\* every next() call after the DoneEvent raises StopIteration: no event
\* follows the DoneEvent, so the events are InProgressEvents and then at most
\* one DoneEvent.
C18_InProgressThenDone ==
    /\ doneEvents <= 1
    /\ sinceDone \subseteq {"StopIteration"}
    /\ event.kind \in {"none", "InProgressEvent", "DoneEvent",
                       "StopIteration", "ImageDoesNotMatchError",
                       "IndexError"}
    /\ (doneEvents = 1) = _done

\* a DoneEvent was returned and a later next() ended the iteration
C18_Witness ==
    /\ polls = 3
    /\ doneEvents = 1
    /\ sinceDone = {"StopIteration"}
    /\ event.kind = "StopIteration"

C20_DoneIffCountsEqual ==
    Polled =>
        \A d \in PrimaryOf(response) :
            ReleaseImageOf(d) = <<"svc", "1">> =>
                /\ event.running = d.runningCount
                /\ event.desired = d.desiredCount
                /\ event.kind = IF d.runningCount = d.desiredCount
                                THEN "DoneEvent" ELSE "InProgressEvent"
                /\ event.done = (d.runningCount = d.desiredCount)
                /\ _done = (d.runningCount = d.desiredCount)

\* a DoneEvent read from the PRIMARY deployment that is listed second, the
\* first deployment having other counts
C20_Witness ==
    /\ Polled
    /\ event.kind = "DoneEvent"
    /\ Len(response) = 2
    /\ response[1].runningCount # event.running
    /\ response[2].runningCount = event.running

\* ----------------------------------------- properties: build_service_name
\* C21: for every environment and component whose joined name is longer than
\* 32 characters build_service_name returns the first 24 characters of the
\* joined name, then tf, then the first 4 hex characters of the sha1 digest
\* of the whole joined name, 30 characters in all; and two calls with the
\* same pair return the same name.
C21_ServiceNameCollapsed ==
    /\ \A i \in 1..Len(svcLog) :
          LET joined == svcLog[i].environment \o <<<<"-">>>>
                            \o svcLog[i].component
              name == svcLog[i].name
          IN Len(joined) > 32 =>
                /\ Len(name) <= 32
                /\ Len(name) = 30
                /\ \A k \in 1..24 : name[k] = joined[k]
                /\ name[25] = <<"t">>
                /\ name[26] = <<"f">>
                /\ \A k \in 1..4 : name[26 + k] = <<"hex", k, joined>>
    /\ \A i \in 1..Len(svcLog) : \A j \in 1..Len(svcLog) :
          (svcLog[i].environment = svcLog[j].environment
              /\ svcLog[i].component = svcLog[j].component)
          => svcLog[i].name = svcLog[j].name

\* two calls with one pair whose joined name has 33 characters
C21_Witness ==
    /\ Len(svcLog) = 2
    /\ svcLog[1].environment = svcLog[2].environment
    /\ svcLog[1].component = svcLog[2].component
    /\ Len(svcLog[1].environment) + 1 + Len(svcLog[1].component) = 33
    /\ Len(svcLog[2].name) = 30

\* ---------------------------------------------- properties: AccountScheme
\* C22 as claimed: account_for_environment returns the account mapped to the
\* environment; without an entry it returns the account of the wildcard
\* entry when there is one, and fails with UnknownEnvironmentError when
\* there is none.
C22_LookupOrUnknownEnvironment ==
    lookup.kind # "none" =>
        LET envs == raw_scheme.environments
        IN IF lookup.environment \in DOMAIN envs
           THEN /\ lookup.kind = "Account"
                /\ lookup.account.alias = envs[lookup.environment].value
           ELSE IF "*" \in DOMAIN envs
           THEN /\ lookup.kind = "Account"
                /\ lookup.account.alias = envs["*"].value
           ELSE lookup.kind = "UnknownEnvironmentError"

\* C23 as claimed: create ends with ConfigError, and without a scheme, when
\* some value of the environments section is not a string or names an
\* alias that is not among the accounts.
C23_CreateConfigError ==
    (/\ created # "none"
     /\ \E env \in DOMAIN raw_scheme.environments :
           \/ raw_scheme.environments[env].type # "str"
           \/ raw_scheme.environments[env].value
                  \notin DOMAIN raw_scheme.accounts)
    => created = "ConfigError" /\ scheme.accounts = {}

\* C24: in every scheme create returned, whatever lookups followed, the
\* release account, every value of the environment mapping and the default
\* of the mapping are members of accounts.
C24_SchemeMembersOfAccounts ==
    created = "AccountScheme" =>
        /\ scheme.release_account \in scheme.accounts
        /\ \A env \in DOMAIN scheme.environment_mapping :
              scheme.environment_mapping[env] \in scheme.accounts
        /\ \A i \in 1..Len(scheme.default_factory) :
              scheme.default_factory[i] \in scheme.accounts
        /\ lookup.kind = "Account" => lookup.account \in scheme.accounts

\* a lookup answered by the wildcard default left its entry in the mapping
C24_Witness ==
    /\ created = "AccountScheme"
    /\ lookup.kind = "Account"
    /\ lookup.environment = "ci"
    /\ "ci" \in DOMAIN scheme.environment_mapping
    /\ "ci" \notin DOMAIN raw_scheme.environments

\* ---------------------------------------- properties: BackendConfigWriter
\* the workspace commands (new or select) among the invocations of the run
WorkspaceCommandsIssued ==
    {i \in 1..Len(commands) :
        /\ Len(commands[i]) = 4
        /\ commands[i][2] = "workspace"
        /\ commands[i][3] \in {"new", "select"}}

\* C25: after the backend init the writer lists the workspaces and then
\* issues exactly one workspace command, for its environment name: `workspace
\* new` when the environment is not among the workspaces the listing showed,
\* `workspace select` when it is; it never runs `workspace new` for a
\* workspace that exists, and no run issues a second workspace command.
C25_WorkspaceNewOrSelect ==
    /\ [][(wpc = "workspace" /\ wpc' # "workspace") =>
            /\ commands = <<TerraformInitCommand, WorkspaceListCommand>>
            /\ commands' = Append(commands,
                  WorkspaceCommand(
                      (IF wenv \in workspaces THEN "select" ELSE "new"),
                      wenv))
            /\ (commands'[3][3] = "new" => wenv \notin workspaces)
            /\ wpc' = "done"]_vars
    /\ [](/\ Cardinality(WorkspaceCommandsIssued) <= 1
          /\ (wpc = "done" => WorkspaceCommandsIssued = {3})
          /\ (wpc \in {"init", "list", "workspace"} =>
                WorkspaceCommandsIssued = {}))

\* a second run has selected the workspace that the first run created
C25_Witness ==
    /\ wruns = 2
    /\ wpc = "done"
    /\ wenv # DEFAULT_WORKSPACE
    /\ commands[3] = WorkspaceCommand("select", wenv)
    /\ current = wenv

\* ------------------------------------------------- properties: Deployment
\* the positions in the invocations of the run that name the given tool step
InvocationsOf(name) ==
    {i \in 1..Len(invocations) : invocations[i][1] = name}

\* C26: a deploy run asked for plan only invokes the plan step, never
\* invokes apply and leaves the deployed infrastructure as it was; a run not
\* asked for plan only invokes apply only as the step right after a plan
\* that exited successfully, and at most once.
C26_PlanOnlyNeverApplies ==
    /\ [][/\ (/\ Len(invocations') = Len(invocations) + 1
              /\ invocations'[Len(invocations')][1] = "apply") =>
                /\ plan = FALSE
                /\ invocations # <<>>
                /\ invocations[Len(invocations)] = Invocation("plan", TRUE)
          /\ (plan = TRUE /\ plan' = TRUE /\ druns' = druns) =>
                infra' = infra]_vars
    /\ [](/\ (plan = TRUE => InvocationsOf("apply") = {})
          /\ (plan = TRUE /\ dpc = "output" =>
                Invocation("plan", TRUE) =
                    invocations[Len(invocations)])
          /\ Cardinality(InvocationsOf("apply")) <= 1
          /\ Cardinality(InvocationsOf("plan")) <= 1)

\* a plan-only run of version 2 has finished after a run that applied
\* version 1
C26_Witness ==
    /\ druns = 2
    /\ plan = TRUE
    /\ dversion = "2"
    /\ dpc = "output"
    /\ infra = "1"
    /\ InvocationsOf("plan") = {2}

\* ------------------------------------ properties: the buckets looked over
\* the buckets listed by the run that have no tag set
NoTagSetListed(p) ==
    {n \in Names : s3AtStart[p][n].owner = "self"
                     /\ s3AtStart[p][n].tags = NoTagSet}

\* the sentinel-tagged buckets listed by the run
TaggedListed(p) ==
    {n \in Names : s3AtStart[p][n].owner = "self"
                     /\ HasSentinelTag(s3AtStart[p][n])}

\* ... whose LocationConstraint is the region name of the caller
TaggedInRegion(p) ==
    {n \in TaggedListed(p) : s3AtStart[p][n].loc = region[p]}

\* ... and those that reside in another region
TaggedElsewhere(p) ==
    {n \in TaggedListed(p) : BucketRegion(s3AtStart[p][n]) # region[p]}

\* C27: a run that listed a bucket without tag set never returns this bucket
\* and does not fail at it: it fails only on two or more tagged buckets of
\* the region or in the creation of a bucket, and when exactly one listed
\* bucket carries the sentinel tag in the caller's region it returns that one
\* and creates nothing.
C27_NoTagSetIsUntagged ==
    \A p \in Procs :
        (Finished(p) /\ NoTagSetListed(p) # {}) =>
            /\ result[p] \notin NoTagSetListed(p)
            /\ result[p] # NoSuchBucket
            /\ (result[p] = <<"AssertionError">> =>
                   Cardinality(TaggedInRegion(p)) >= 2)
            /\ (pc[p] = "failed" /\ result[p] # <<"AssertionError">> =>
                   createCalls[p] # <<>>)
            /\ (Cardinality(TaggedInRegion(p)) = 1 =>
                   /\ pc[p] = "done"
                   /\ result[p] \in TaggedInRegion(p)
                   /\ createCalls[p] = <<>>)

\* the tagged bucket was returned by a run that also listed a bucket without
\* tag set
C27_Witness ==
    /\ runs[1] = 1
    /\ pc[1] = "done"
    /\ NoTagSetListed(1) # {}
    /\ result[1] \in TaggedInRegion(1)

\* the buckets listed by the run that are gone
DeletedListed(p) ==
    {n \in Names : s3AtStart[p][n].owner = "self" /\ ~Exists(s3[n])}

\* C28: a run during which a listed bucket was deleted does not fail with
\* NoSuchBucket, and when exactly one of the remaining listed buckets carries
\* the sentinel tag in the caller's region the run returns that one.
C28_DeletedBucketIgnored ==
    \A p \in Procs :
        (Finished(p) /\ DeletedListed(p) # {}) =>
            /\ result[p] # NoSuchBucket
            /\ (Cardinality(TaggedInRegion(p) \ DeletedListed(p)) = 1 =>
                   /\ pc[p] = "done"
                   /\ result[p] \in TaggedInRegion(p) \ DeletedListed(p))

\* C29: a run in us-east-1 that listed exactly one sentinel-tagged bucket,
\* with location constraint None, returns this bucket and issues no
\* create_bucket call.
C29_NoneLocationIsUsEast1 ==
    \A p \in Procs :
        (/\ Finished(p)
         /\ region[p] = "us-east-1"
         /\ Cardinality(TaggedListed(p)) = 1
         /\ \A n \in TaggedListed(p) : s3AtStart[p][n].loc = NoneLocation)
        => /\ pc[p] = "done"
           /\ result[p] \in TaggedListed(p)
           /\ createCalls[p] = <<>>

\* C30: a run never returns a sentinel-tagged bucket of another region and
\* fails on multiple buckets only when two or more tagged buckets of the
\* caller's region were listed; a run that returns when every listed tagged
\* bucket is of another region has created a bucket that was not there, in
\* the caller's region, and has tagged it.
C30_OtherRegionNotCounted ==
    \A p \in Procs :
        Finished(p) =>
            /\ result[p] \notin TaggedElsewhere(p)
            /\ (result[p] = <<"AssertionError">> =>
                   Cardinality(TaggedListed(p) \ TaggedElsewhere(p)) >= 2)
            /\ (/\ pc[p] = "done"
                /\ TaggedElsewhere(p) # {}
                /\ TaggedListed(p) = TaggedElsewhere(p)) =>
                   /\ ~Exists(s3AtStart[p][result[p]])
                   /\ Cardinality(OkCalls(p)) = 1
                   /\ s3[result[p]].loc = region[p]
                   /\ s3[result[p]].tags = SentinelTagSet
                   /\ tagCalls[p] = <<result[p]>>
                   /\ \A n \in TaggedElsewhere(p) : s3[n] = s3AtStart[p][n]

\* a bucket was created in eu-west-1 by a run that listed tagged buckets of
\* us-east-1 only, one of them with location constraint None
C30_Witness ==
    /\ pc[1] = "done"
    /\ region[1] = "eu-west-1"
    /\ Cardinality(TaggedElsewhere(1)) = 2
    /\ TaggedListed(1) = TaggedElsewhere(1)
    /\ \E n \in TaggedElsewhere(1) : s3AtStart[1][n].loc = NoneLocation
    /\ s3[result[1]].loc = "eu-west-1"
    /\ s3[result[1]].tags = SentinelTagSet

\* ------------------------------------- properties: the bucket that is named
\* C31: the name a run returns is, at the return and while nobody else
\* touches the account, the name of a bucket of the account whose location
\* constraint is the caller's region and which carries the sentinel tag;
\* put_bucket_tagging is reached only after a create_bucket call that
\* succeeded, for the name of that call, and the run that tagged a bucket
\* returns the name it tagged.
C31_ReturnedBucketTagged ==
    \A p \in Procs :
        /\ pc[p] = "done" =>
              /\ result[p] \in Names
              /\ s3[result[p]].owner = "self"
              /\ s3[result[p]].loc = region[p]
              /\ <<TAG_NAME, TAG_VALUE>> \in s3[result[p]].tags.tags
        /\ pc[p] = "tag" =>
              /\ createCalls[p] # <<>>
              /\ createCalls[p][Len(createCalls[p])] =
                     [name |-> bucket_name[p], answer |-> "ok"]
              /\ tagCalls[p] = <<>>
        /\ tagCalls[p] # <<>> =>
              /\ pc[p] = "done"
              /\ tagCalls[p] = <<result[p]>>
              /\ createCalls[p] # <<>>
              /\ createCalls[p][Len(createCalls[p])] =
                     [name |-> result[p], answer |-> "ok"]

\* the returned bucket was created at the third candidate name and tagged
C31_Witness ==
    /\ pc[1] = "done"
    /\ Len(createCalls[1]) = 3
    /\ tagCalls[1] = <<result[1]>>
    /\ s3[result[1]].tags = SentinelTagSet
    /\ s3[result[1]].loc = region[1]

\* ------------------------------ properties: the order of the table checks
\* the run found a table that has neither the attribute LockID nor the tag
\* cdflow_terraform_locks=true
LacksBoth(p) ==
    /\ TFinished(p)
    /\ FoundFirst(p)
    /\ ~(\E a \in described[p].attrs : a[1] = "LockID")
    /\ ~(\E t \in table.tags : t = <<"cdflow_terraform_locks", "true">>)

C33_ConvergesAfterInterruption ==
    (/\ tpc[1] = "stopped"
     /\ TFinished(2)
     /\ tcalls[2][1].answer \notin OtherErrorCodes) =>
        /\ tpc[2] = "done"
        /\ tresult[2] = "terraform_locks"
        /\ <<"cdflow_terraform_locks", "true">> \in table.tags

\* ------------------------------------- properties: the lookups of a scheme
\* C34 as claimed: whatever lookups followed create, the environment mapping
\* of the scheme has the keys and the values it had when create returned:
\* the environments of the raw scheme, each with the account of its alias.
C34_LookupHasNoSideEffect ==
    created = "AccountScheme" =>
        /\ DOMAIN scheme.environment_mapping = DOMAIN raw_scheme.environments
        /\ \A env \in DOMAIN raw_scheme.environments :
              scheme.environment_mapping[env].alias =
                  raw_scheme.environments[env].value

\* ------------------------------------- properties: the end of an iteration
\* the for loop over the iterator is over: next() raised
IterationOver ==
    event.kind \in {"StopIteration", "ImageDoesNotMatchError", "IndexError"}

\* C35 as claimed: every iteration of the monitor comes to its end, with a
\* DoneEvent followed by StopIteration or with an error.
C35_IterationTerminates == <>IterationOver

\* C35 as amended: an iteration goes on only while ECS answers a PRIMARY
\* deployment of the released image whose runningCount is not its
\* desiredCount, every such call yielding one InProgressEvent; a DoneEvent
\* is followed by StopIteration at the next call, and nothing is yielded
\* after the loop is over.  The number of InProgressEvents has no bound.
C35_EndsOnlyWhenEcsConverges ==
    /\ [][/\ event'.kind = "InProgressEvent" =>
                /\ PrimaryOf(response') # {}
                /\ \A d \in PrimaryOf(response') :
                      /\ d.runningCount # d.desiredCount
                      /\ ReleaseImageOf(d) = <<"svc", "1">>
                /\ ~_done'
          /\ event.kind = "DoneEvent" => event'.kind = "StopIteration"
          /\ ~IterationOver]_vars
    /\ (event.kind = "DoneEvent" ~> event.kind = "StopIteration")

\* as many InProgressEvents as the calls are counted, and no DoneEvent
C35_Witness ==
    /\ polls = MaxPolls
    /\ event.kind = "InProgressEvent"
    /\ doneEvents = 0
    /\ ~_done

\* ---------------------------------- properties: the task-definition cache
\* the ARNs whose image the lru_cache holds
CachedArns(c) == {c[i].arn : i \in 1..Len(c)}

\* C36: a next() call on a latched iterator issues no ECS call; every other
\* call issues describe_services first, and describe_task_definition after
\* it exactly when the ARN of the PRIMARY deployment is not in the cache; the
\* image a fetch returned is in the cache from then on, under its ARN, so
\* that later polls referencing the ARN fetch nothing; the cache never
\* holds more than 10 entries nor two entries of one ARN.
C36_FetchedOncePerArn ==
    /\ [][IF _done
          THEN ecsCalls' = <<>> /\ cache' = cache
          ELSE /\ ecsCalls' # <<>>
               /\ ecsCalls'[1] = "describe_services"
               /\ \A d \in PrimaryOf(response') :
                     LET arn == d.taskDefinition
                     IN /\ ecsCalls' =
                              IF arn \in CachedArns(cache)
                              THEN <<"describe_services">>
                              ELSE <<"describe_services",
                                     "describe_task_definition">>
                        /\ event'.kind # "IndexError" =>
                              \E i \in 1..Len(cache') :
                                  /\ cache'[i].arn = arn
                                  /\ cache'[i].image = ReleaseImageOf(d)
               /\ PrimaryOf(response') = {} =>
                     ecsCalls' = <<"describe_services">>
               /\ \A i \in 1..Len(cache) :
                     \E j \in 1..Len(cache') : cache'[j] = cache[i]]_vars
    /\ [](/\ Len(cache) <= 10
          /\ Cardinality(CachedArns(cache)) = Len(cache))

\* a poll answered from the cache, after polls that fetched the task
\* definitions of two ARNs
C36_Witness ==
    /\ polls = 3
    /\ Len(cache) = 2
    /\ ecsCalls = <<"describe_services">>
    /\ event.kind = "InProgressEvent"

AllPhasesFinished ==
    /\ ecs_service_update_finished
    /\ ecs_deploy_finished
    /\ elbv2_deploy_finished

\* a poll cycle of the run took place in this step
PollCycleStep == rpc = "loop" /\ cycles' = cycles + 1

\* C38: the monitoring loop of Deployment.run is left only in a poll cycle
\* in which all three phases (service update, ECS deploy, ELB health) are
\* finished; a phase flag that is set is never cleared by a poll cycle; the
\* ELB is examined only in a cycle in which the service update has finished;
\* and the ELB phase finishes only after the healthy-target count has
\* equalled desiredCount in at least 5 poll cycles.
C38_LoopLeftWhenAllFinished ==
    /\ [][PollCycleStep =>
            /\ rpc' = "finished" =>
                   AllPhasesFinished' /\ deploy_finished'
            /\ ecs_service_update_finished => ecs_service_update_finished'
            /\ ecs_deploy_finished => ecs_deploy_finished'
            /\ elbv2_deploy_finished => elbv2_deploy_finished'
            /\ lastPoll'.examined => ecs_service_update_finished'
            /\ elbv2_deploy_finished' => equalCycles' >= 5]_vars
    /\ [](rpc = "finished" => AllPhasesFinished)
    /\ [](elbv2_deploy_finished => equalCycles >= 5)

\* a run whose loop was left after the ELB was not yet healthy in some cycle
C38_Witness ==
    /\ rpc = "finished"
    /\ AllPhasesFinished
    /\ cycles > equalCycles
    /\ equalCycles >= 5

\* C39: in a poll cycle whose ELB data is partial (no target-health entry
\* maps to a task of the new task definition, or a target maps to no known
\* task) the monitoring loop takes the deployment to be still in progress
\* and keeps polling: the cycle does not end the run with an error.
C39_PartialDataKeepsPolling ==
    [][PollCycleStep /\ lastPoll'.examined /\ lastPoll'.partial =>
           rpc' = "loop" /\ lastPoll'.error = "none"]_vars

\* ------------------------------------------ properties: the working directory
\* Deployment.cleanup has just returned: at the start of run, or after the
\* monitoring loop
CleanupReturned == rpc \in {"tools", "finished"}

\* C40: after Deployment.cleanup returns, neither .terraform nor .terragrunt
\* exists, whichever of the two existed before the call.
C40_CleanupRemovesBoth ==
    CleanupReturned => files \cap {DOT_TERRAFORM, DOT_TERRAGRUNT} = {}

====
